---- MODULE Spec2Model ----
(***************************************************************************)
(* Manifest generation core of the repo-server: Service.GenerateManifest,  *)
(* Service.runRepoOperation, Service.runManifestGen(Async) and             *)
(* Service.getManifestCacheEntry, with the manifest cache, the parallelism *)
(* semaphore and the working-tree lock they use.                           *)
(***************************************************************************)
EXTENDS Integers, Sequences, FiniteSets, TLC

VARIABLES
    initConstants,  \* RepoServerInitConstants of the Service (fixed after NewService)
    repoType,       \* what the repository of the requests is: a git, Helm or OCI repository
    refs,           \* what the "$ref" tokens of the source's value files stand for
    storeFaulty,    \* whether calls of the manifest cache store can fail
    boot,           \* Service.Init: its position, the root directory and what it scanned
    oobRevisions,   \* trees that hold a symlink escaping the tree root: revisions of the
                    \* repository, "ref" for the tree of the referenced repository
    now,            \* s.now().Unix(), in seconds
    cache,          \* manifest cache: key -> CachedManifestResponse (present = FALSE: miss)
    semHeld,        \* slots of parallelismLimitSemaphore that are acquired
    repoLock,       \* state of the working-tree lock of the repository's tree
    st,             \* per request: position and locals of GenerateManifest / runRepoOperation
    task,           \* per request: position and locals of the runManifestGenAsync goroutine
    started,        \* number of GenerateManifest calls made so far
    obs,            \* per key: the requests returned so far, as far as they follow the
                    \* backoff scenario (observer, not program state)
    upd,            \* the UpdateRevisionForPaths calls made so far: their number, the
                    \* latest call's request and what it found (observer)
    co,             \* a call of checkoutRevision: the git client it is given, the calls
                    \* it has made on it and the error it returned
    ms,             \* a call of mergeSourceParameters: the source, the override files at
                    \* the application's path and the error it returned
    hb,             \* helmTemplate calls on one application path: the marker file, the
                    \* holder of the path's key in manifestGenerateLock, each call's position
    sa,             \* a call of deriveServiceAccountToImpersonate: the project, the
                    \* application, the destination cluster and what it returned
    xr,             \* two requests whose sources reference each other's repository:
                    \* the working-tree locks of both trees and each request's position
    proj,           \* an AppProject and a call of one of its methods: the source
                    \* repositories, the JWT tokens of a role in spec and status
    creds           \* the repository credential stores of the API server, the
                    \* enforcer's policy and the latest call with what it returned

vars == <<initConstants, repoType, refs, storeFaulty, boot, oobRevisions, now, cache, semHeld, repoLock, st, task, started, obs, upd, co, ms, hb, sa, xr, proj, creds>>

----------------------------------------------------------------------------
(* Bounds of the model *)

MaxRequests == 3    \* GenerateManifest calls in one behaviour
MaxTicks == 2       \* clock advances in one behaviour
MaxEntries == 2     \* entries of the root directory when Init lists it
MaxUpdates == 2     \* UpdateRevisionForPaths calls in one behaviour
MaxRenderers == 2   \* concurrent helmTemplate calls on one application path

(* Program constants *)

SecondsPerMinute == 60

StartTime == 10 * SecondsPerMinute                    \* the clock when the service starts, in seconds

Reqs == {1, 2}                      \* request slots (goroutines serving GenerateManifest)
Revisions == {"r1", "r2"}           \* resolved revisions (commit SHA / digest / version)
RepoTypes == {"git", "helm", "oci"} \* default / source.IsHelm() / source.IsOCI()

\* the kinds of tree a request renders: a repository's, or the files streamed to
\* GenerateManifestWithFiles
SourceKinds == RepoTypes \cup {"streamed"}
RenderErrors == {"boom", "bang"}    \* messages of failing renders

\* the "$ref" tokens of a multi-source Helm source's value files / file parameters:
\*   none:     no token (or not multi-source, or no Helm options)
\*   one:      one token, mapped to another repository
\*   conflict: two tokens mapped to one other repository at different target revisions
\*   primary:  one token mapped to the primary source's repository, resolving to
\*             another commit than the primary source
\*   unknown:  one token that is not a key of refSources, which has other keys
\*   undeclared: one token, and refSources is empty
\*   chart:    one token whose refSources entry has a chart
RefKinds == {"none", "one", "conflict", "primary", "unknown", "undeclared", "chart"}
cachedManifestGenerationPrefix == "Manifest generation error (cached)"

----------------------------------------------------------------------------
(* Values *)

NoResponse == [revision |-> "", gen |-> 0]            \* a nil *ManifestResponse
Response(rev, g) == [revision |-> rev, gen |-> g]     \* manifests rendered from rev by render g

NoErr == [type |-> "", msg |-> ""]                    \* a nil error
Err(t, m) == [type |-> t, msg |-> m]
CachedErr(m) == Err(cachedManifestGenerationPrefix, m)

\* errors runRepoOperation returns before it calls operation
AcquisitionErrors == {"cancelled", "checkout", "extract", "symlink", "commitsha", "apppath"}

\* zero value of cache.CachedManifestResponse; also what a cache miss leaves in res
NoEntry ==
    [present |-> FALSE, ManifestResponse |-> NoResponse, FirstFailureTimestamp |-> 0,
     NumberOfConsecutiveFailures |-> 0, NumberOfCachedResponsesReturned |-> 0,
     MostRecentError |-> ""]

\* the commit the target revision of the referenced repository resolves to
RefCommit == "refsha"

\* line 426: repoRefs, the map resolveReferencedSources returns when it returns
\* no error: the referenced repository's commit, or "" for the empty map
repoRefs == IF refs \in {"one", "conflict", "primary"} THEN RefCommit ELSE ""

\* the key of a manifest cache entry: of what GetManifests / SetManifests are
\* given, the revision and the resolved revisions of the referenced
\* repositories differ between the requests modelled
ManifestKey(revision, refSourceCommitSHAs) ==
    [revision |-> revision, repoRefs |-> refSourceCommitSHAs]

\* lines 432, 563, 672: the cache key of a request: cacheFn(revision, repoRefs, ...)
Key(q) == ManifestKey(q.revision, repoRefs)
Keys == [revision : Revisions, repoRefs : {"", RefCommit} \cup Revisions]

\* pathless: a source of several with neither a path nor a chart (line 682)
\* ref: a source of several that declares a ref (q.ApplicationSource.IsRef())
NoRequest ==
    [revision |-> "r1", noCache |-> FALSE, plugin |-> FALSE, allowConcurrent |-> TRUE,
     pathless |-> FALSE, ref |-> FALSE]

NoWrite == [op |-> "none", ent |-> NoEntry, ok |-> FALSE, err |-> NoErr]

IdleSt ==
    [pc |-> "idle", q |-> NoRequest, res |-> NoResponse, err |-> NoErr,
     tarConcluded |-> FALSE, pend |-> NoWrite, sem |-> FALSE, lock |-> FALSE,
     extracted |-> FALSE,
     \* observers: serial number of the call, what its probes read and decided, what it ran
     id |-> 0, concurrent |-> FALSE, probed |-> NoEntry, probedAt |-> 0, verdict |-> "",
     firstProbedAt |-> 0, prior |-> NoEntry, failedAt |-> 0, checkedOut |-> FALSE,
     rendered |-> FALSE, doubleChecked |-> FALSE, generated |-> FALSE,
     refAcquired |-> FALSE, storeErrs |-> {}, resolved |-> {}]

\* runRepoOperation returns err (or nil): its deferred calls run next
ReturnWith(s, e) == [s EXCEPT !.pc = "return", !.err = e]

IdleTask == [pc |-> "none", innerRes |-> NoEntry, err |-> NoErr, out |-> NoResponse,
             refLock |-> FALSE,
             \* the goroutine's own repoRefs map (line 851), as its key part
             repoRefs |-> "",
             \* observer: the values the caller has received on responseCh and errCh
             sent |-> 0]

NoUpdate == [n |-> 0, syncedRevision |-> "", revision |-> "", unchanged |-> FALSE,
             Revision |-> "", Changes |-> FALSE, err |-> FALSE]

\* no call of checkoutRevision
NoCheckout == [pc |-> "none", gitClient |-> <<>>, revision |-> "", calls |-> <<>>, err |-> ""]

\* no call of mergeSourceParameters
NoMerge == [pc |-> "none", source |-> <<>>, before |-> <<>>, appName |-> "",
            files |-> <<>>, err |-> ""]

\* the goroutines that run helmTemplate on the application path
Renderers == 1..MaxRenderers

\* a helmTemplate call that has not started
NoTemplate == [pc |-> "none", templates |-> 0, built |-> FALSE, err |-> ""]

\* no helmTemplate call; the marker file is missing, the key is free (0)
NoHelm == [marker |-> FALSE, lock |-> 0, okBuilds |-> 0, writeFailed |-> FALSE,
           call |-> [r \in Renderers |-> NoTemplate]]

StartObs == [on |-> TRUE, n |-> 0, t0 |-> 0, msg |-> "",
             last |-> [cached |-> FALSE, msg |-> "", rendered |-> FALSE]]
NoObs == [StartObs EXCEPT !.on = FALSE]

\* Service.Init has returned; the root directory is as it left it
BootDone == [pc |-> "done", exists |-> TRUE, mode |-> "0300", entries |-> <<>>, next |-> 1,
             paths |-> {}, err |-> FALSE]

IdleLock == [revision |-> "", processCount |-> 0, allowConcurrent |-> FALSE,
             checkingOut |-> 0, queue |-> <<>>]

----------------------------------------------------------------------------
(* Manifest cache store: get / set / delete by key *)

\* whether a call of the store fails with an error that is no miss: only a
\* faulty store does
StoreOutcomes == IF storeFaulty THEN BOOLEAN ELSE {FALSE}

GetManifests(k) == cache[k]
SetManifests(k, e) == [cache EXCEPT ![k] = [e EXCEPT !.present = TRUE]]
DeleteManifests(k) == [cache EXCEPT ![k] = NoEntry]

\* the entry under the old revision's key is moved to the new revision's key; a
\* miss moves nothing
SetNewRevisionManifests(newRevision, revision, refSourceCommitSHAs) ==
    LET oldKey == ManifestKey(revision, refSourceCommitSHAs)
        newKey == ManifestKey(newRevision, refSourceCommitSHAs)
    IN IF ~cache[oldKey].present THEN cache
       ELSE [cache EXCEPT ![newKey] = cache[oldKey], ![oldKey] = NoEntry]

elapsedTimeInMinutes(first) == (now - first) \div SecondsPerMinute

\* Faulty variants of the definitions below, each with one deliberate fault

\* pauseMinutesElapsed without the "minutes > 0" guard of line 1038
pauseMinutesElapsedUnguarded(res) ==
    elapsedTimeInMinutes(res.FirstFailureTimestamp)
        >= initConstants.PauseGenerationOnFailureForMinutes

\* pauseRequestsServed with ">" for the ">=" of line 1057
pauseRequestsServedStrict(res) ==
    /\ initConstants.PauseGenerationOnFailureForRequests > 0
    /\ res.NumberOfCachedResponsesReturned > 0
    /\ res.NumberOfCachedResponsesReturned
          > initConstants.PauseGenerationOnFailureForRequests

\* FailureUpdate stamping the time on every failure, not only the first
FailureUpdateRestamping(innerRes, err) ==
    [innerRes EXCEPT
        !.FirstFailureTimestamp = now,
        !.NumberOfConsecutiveFailures = @ + 1,
        !.MostRecentError = err.msg]

\* SuccessEntry that leaves a failure count in the entry
SuccessEntryKeepingCount(manifestGenResult) ==
    [present |-> TRUE, ManifestResponse |-> manifestGenResult, FirstFailureTimestamp |-> 0,
     NumberOfConsecutiveFailures |-> 1, NumberOfCachedResponsesReturned |-> 0,
     MostRecentError |-> ""]

\* TaskFail that never updates the failure record
TaskFailUnrecorded(t, e) == [t EXCEPT !.err = e, !.pc = "senderr"]

\* OnTarDone that waits for the plugin inside operation, the lock still held
OnTarDoneHolding(s) == [s EXCEPT !.tarConcluded = TRUE, !.pc = "select2"]

\* OnResponse that drops the response it received
OnResponseDropped(s, resp) ==
    IF s.pc = "select1" THEN ReturnWith(s, NoErr) ELSE [s EXCEPT !.pc = "done"]

\* lines 1034-1036: res is a failure record and generation is paused
generationPaused(res) ==
    /\ initConstants.PauseGenerationAfterFailedGenerationAttempts > 0
    /\ res.FirstFailureTimestamp > 0
    /\ res.NumberOfConsecutiveFailures
          >= initConstants.PauseGenerationAfterFailedGenerationAttempts

\* lines 1038-1042: enough time has passed to try generation again
pauseMinutesElapsed(res) ==
    /\ initConstants.PauseGenerationOnFailureForMinutes > 0
    /\ elapsedTimeInMinutes(res.FirstFailureTimestamp)
          >= initConstants.PauseGenerationOnFailureForMinutes

\* lines 1056-1057: enough cached responses have been returned to try again
pauseRequestsServed(res) ==
    /\ initConstants.PauseGenerationOnFailureForRequests > 0
    /\ res.NumberOfCachedResponsesReturned > 0
    /\ res.NumberOfCachedResponsesReturned
          >= initConstants.PauseGenerationOnFailureForRequests

(* Service.getManifestCacheEntry on the entry res read from the cache:       *)
(* ok = TRUE when the operation need not run; op/ent is the cache write the  *)
(* function goes on to make.                                                 *)
getManifestCacheEntry(res, firstInvocation) ==
    LET miss == [ok |-> FALSE, res |-> NoResponse, err |-> NoErr, op |-> "none", ent |-> NoEntry]
        reset == [miss EXCEPT !.op = "delete"]
    IN
    IF ~res.present THEN miss
    ELSE IF /\ initConstants.PauseGenerationAfterFailedGenerationAttempts > 0
            /\ res.FirstFailureTimestamp > 0
    THEN IF generationPaused(res)
         THEN IF pauseMinutesElapsed(res) THEN reset
              ELSE IF pauseRequestsServed(res) THEN reset
              ELSE [ok |-> TRUE, res |-> NoResponse, err |-> CachedErr(res.MostRecentError),
                    op |-> IF firstInvocation THEN "set" ELSE "none",
                    ent |-> [res EXCEPT !.NumberOfCachedResponsesReturned = @ + 1]]
         ELSE [miss EXCEPT !.res = res.ManifestResponse]
    ELSE [ok |-> TRUE, res |-> res.ManifestResponse, err |-> NoErr, op |-> "none",
          ent |-> NoEntry]

----------------------------------------------------------------------------
(* Failure record update and success entry of runManifestGenAsync *)

\* FailureUpdate that leaves the time of the first failure unset
FailureUpdateUnstamped(innerRes, err) ==
    [innerRes EXCEPT
        !.NumberOfConsecutiveFailures = @ + 1,
        !.MostRecentError = err.msg]

\* lines 979-987: stamp the first failure, count it, remember its message
FailureUpdate(innerRes, err) ==
    [innerRes EXCEPT
        !.FirstFailureTimestamp = IF @ = 0 THEN now ELSE @,
        !.NumberOfConsecutiveFailures = @ + 1,
        !.MostRecentError = err.msg]

\* lines 1003-1011: the entry written after a successful render
SuccessEntry(manifestGenResult) ==
    [present |-> TRUE, ManifestResponse |-> manifestGenResult, FirstFailureTimestamp |-> 0,
     NumberOfConsecutiveFailures |-> 0, NumberOfCachedResponsesReturned |-> 0,
     MostRecentError |-> ""]

----------------------------------------------------------------------------
(* GenerateManifest / runRepoOperation, one request per slot r *)

Set(r, f) == st' = [st EXCEPT ![r] = f]

\* a source that is never taken for a ref-only source
RefOnlySourceNever(q) == FALSE

\* line 662: a source of several with a ref and no path that is neither an OCI
\* archive nor a chart
RefOnlySource(q) == q.ref /\ q.pathless /\ repoType = "git"

\* GenerateManifest is called with request q
Begin(r, q) ==
    /\ st[r].pc = "idle"
    /\ task[r].pc = "none"
    /\ started < MaxRequests
    /\ started' = started + 1
    /\ Set(r, [IdleSt EXCEPT !.pc = IF RefOnlySource(q) THEN "refonly" ELSE "resolve",
                              !.q = q, !.id = started + 1,
                              !.concurrent = \E o \in Reqs : st[o].pc \notin {"idle", "done"}])
    /\ UNCHANGED <<initConstants, repoType, refs, storeFaulty, boot, oobRevisions, now, cache, semHeld, repoLock, task, obs, upd, co, ms, hb, sa, xr, proj, creds>>

\* lines 662-669: the ref-only source: the revision is resolved and returned in
\* a response without manifests, together with the resolver's error (a response
\* with no revision and no manifests is written like nil)
SkipRefOnly(r) ==
    /\ st[r].pc = "refonly"
    /\ \E ok \in BOOLEAN :
          Set(r, [st[r] EXCEPT !.pc = "done", !.resolved = {"revision"},
                               !.res = IF ok THEN Response(st[r].q.revision, 0) ELSE NoResponse,
                               !.err = IF ok THEN NoErr ELSE Err("resolve", "")])
    /\ UNCHANGED <<initConstants, repoType, refs, storeFaulty, boot, oobRevisions, now, cache, semHeld, repoLock, task, started, obs, upd, co, ms, hb, sa, xr, proj, creds>>

\* resolveReferencedSources that looks no token up
resolveReferencedSourcesUnchecked == NoErr

\* lines 610-655: the error resolveReferencedSources returns when every revision it
\* asks for resolves: a token with no refSources entry, or an entry with a chart;
\* a repository already in repoRefs is skipped whatever revision the token asks for
resolveReferencedSources ==
    IF refs = "unknown" THEN Err("unresolvedref", "")
    ELSE IF refs = "undeclared" THEN Err("undeclaredref", "")
    ELSE IF refs = "chart" THEN Err("refchart", "")
    ELSE NoErr

\* the resolvers runRepoOperation has called when it reaches the first probe:
\* that of the source's revision (lines 413-420), and with "$ref" tokens
\* newClientResolveRevision for the referenced repository (line 645)
Resolvers == IF refs \in {"one", "conflict", "primary"} THEN {"revision", "refs"}
             ELSE {"revision"}

\* lines 413-435: resolve the revision (q.revision is what it resolves to) and
\* the referenced sources, then the first cache probe unless noCache.
\* lines 727-744: GenerateManifestWithFiles resolves and probes nothing and takes
\* no slot: it goes on to receive the stream (q.revision is the files' checksum)
ResolveRevision(r) ==
    /\ st[r].pc = "resolve"
    /\ \E ok \in BOOLEAN :
          LET s == [st[r] EXCEPT !.resolved = Resolvers] IN
          IF repoType = "streamed" THEN ok /\ Set(r, [st[r] EXCEPT !.pc = "acquire"])
          ELSE IF ~ok THEN Set(r, [s EXCEPT !.pc = "done", !.err = Err("resolve", "")])
          ELSE IF resolveReferencedSources # NoErr
          THEN Set(r, [s EXCEPT !.pc = "done", !.err = resolveReferencedSources])
          ELSE Set(r, [s EXCEPT !.pc = IF s.q.noCache THEN "admit" ELSE "probe1"])
    /\ UNCHANGED <<initConstants, repoType, refs, storeFaulty, boot, oobRevisions, now, cache, semHeld, repoLock, task, started, obs, upd, co, ms, hb, sa, xr, proj, creds>>

\* AfterProbe that goes on to the operation whatever cacheFn returned
AfterProbeIgnored(s, d) ==
    [s EXCEPT !.pc = IF s.pc \in {"probe1", "probe1w"} THEN "admit" ELSE "operation"]

\* where runRepoOperation goes after cacheFn returned (ok, err) at probe pc
AfterProbe(s, d) ==
    IF d.ok THEN ReturnWith(s, d.err)
    ELSE [s EXCEPT !.pc = IF s.pc \in {"probe1", "probe1w"} THEN "admit" ELSE "operation"]

\* cacheFn: getManifestCacheEntry reads the entry and decides; res = resp is
\* assigned whatever the outcome (line 673)
\* lines 1029-1030, 1101-1107: a GetManifests error that is no miss leaves res
\* zero and is logged: getManifestCacheEntry returns (false, nil, nil)
CacheProbe(r) ==
    /\ st[r].pc \in {"probe1", "probe2"}
    /\ \E fail \in StoreOutcomes :
       LET first == st[r].pc = "probe1"
           ent == IF fail THEN NoEntry ELSE GetManifests(Key(st[r].q))
           d == getManifestCacheEntry(ent, first)
           v == IF fail THEN "storeerr"
                ELSE IF d.ok THEN (IF d.err = NoErr THEN "hit" ELSE "cached")
                ELSE (IF d.op = "delete" THEN "reset" ELSE "miss")
           s1 == [st[r] EXCEPT !.res = d.res, !.probed = ent, !.probedAt = now,
                               !.verdict = v, !.firstProbedAt = IF first THEN now ELSE @,
                               !.doubleChecked = ~first,
                               !.storeErrs = IF fail THEN @ \cup {"probe"} ELSE @]
       IN IF d.op = "none" THEN Set(r, AfterProbe(s1, d))
          ELSE Set(r, [s1 EXCEPT !.pc = IF first THEN "probe1w" ELSE "probe2w",
                                 !.pend = [op |-> d.op, ent |-> d.ent, ok |-> d.ok,
                                           err |-> d.err]])
    /\ UNCHANGED <<initConstants, repoType, refs, storeFaulty, boot, oobRevisions, now, cache, semHeld, repoLock, task, started, obs, upd, co, ms, hb, sa, xr, proj, creds>>

\* the DeleteManifests / SetManifests call getManifestCacheEntry makes before
\* returning; its error is only logged (lines 1046-1049, 1061-1064, 1082-1085)
CacheProbeWrite(r) ==
    /\ st[r].pc \in {"probe1w", "probe2w"}
    /\ \E fail \in StoreOutcomes :
       LET p == st[r].pend
           k == Key(st[r].q)
       IN /\ cache' = IF fail THEN cache
                       ELSE IF p.op = "delete" THEN DeleteManifests(k) ELSE SetManifests(k, p.ent)
          /\ Set(r, AfterProbe([st[r] EXCEPT !.pend = NoWrite,
                                            !.storeErrs = IF fail THEN @ \cup {"probeset"} ELSE @],
                               p))
    /\ UNCHANGED <<initConstants, repoType, refs, storeFaulty, boot, oobRevisions, now, semHeld, repoLock, task, started, obs, upd, co, ms, hb, sa, xr, proj, creds>>

----------------------------------------------------------------------------
(* Service.Init (lines 227-260) *)

\* what os.ReadDir lists: a file, a directory that is no repository (or has no
\* remote URL), a cloned repository
DirEntryKinds == {"file", "dir", "repo"}

BootReturn(b, failed) == [b EXCEPT !.pc = "done", !.err = failed]

\* lines 228-231: os.Stat; a missing directory is made with mode 0o300 and Init
\* returns MkdirAll's error. Any other Stat error skips to the warning (line
\* 240) and Init returns nil.
InitStat ==
    /\ boot.pc = "stat"
    /\ \E ok \in BOOLEAN :
          boot' = IF ~boot.exists
                  THEN IF ok THEN BootReturn([boot EXCEPT !.exists = TRUE, !.mode = "0300"], FALSE)
                       ELSE BootReturn(boot, TRUE)
                  ELSE IF ok THEN [boot EXCEPT !.pc = "chmod"]
                       ELSE BootReturn(boot, FALSE)
    /\ UNCHANGED <<initConstants, repoType, refs, storeFaulty, oobRevisions, now, cache, semHeld, repoLock, st, task, started, obs, upd, co, ms, hb, sa, xr, proj, creds>>

\* lines 232-235, 240-243: os.Chmod(rootDir, 0o700); its error is logged and Init
\* returns nil
InitChmod ==
    /\ boot.pc = "chmod"
    /\ \E ok \in BOOLEAN :
          boot' = IF ok THEN [boot EXCEPT !.mode = "0700", !.pc = "readdir"]
                  ELSE BootReturn(boot, FALSE)
    /\ UNCHANGED <<initConstants, repoType, refs, storeFaulty, oobRevisions, now, cache, semHeld, repoLock, st, task, started, obs, upd, co, ms, hb, sa, xr, proj, creds>>

\* lines 236-243: os.ReadDir; its error is logged and Init returns nil
InitReadDir ==
    /\ boot.pc = "readdir"
    /\ \E ok \in BOOLEAN :
          boot' = IF ok THEN [boot EXCEPT !.pc = "scan"]
                  ELSE BootReturn(boot, FALSE)
    /\ UNCHANGED <<initConstants, repoType, refs, storeFaulty, oobRevisions, now, cache, semHeld, repoLock, st, task, started, obs, upd, co, ms, hb, sa, xr, proj, creds>>

\* lines 245-257: one entry of the listing; a repository with a remote URL is
\* added to gitRepoPaths
InitScan ==
    /\ boot.pc = "scan"
    /\ boot.next <= Len(boot.entries)
    /\ boot' = [boot EXCEPT !.next = @ + 1,
                            !.paths = IF boot.entries[boot.next] = "repo"
                                      THEN @ \cup {boot.next} ELSE @]
    /\ UNCHANGED <<initConstants, repoType, refs, storeFaulty, oobRevisions, now, cache, semHeld, repoLock, st, task, started, obs, upd, co, ms, hb, sa, xr, proj, creds>>

\* line 259: return os.Chmod(rootDir, 0o300)
InitRestore ==
    /\ boot.pc = "scan"
    /\ boot.next > Len(boot.entries)
    /\ \E ok \in BOOLEAN :
          boot' = IF ok THEN BootReturn([boot EXCEPT !.mode = "0300"], FALSE)
                  ELSE BootReturn(boot, TRUE)
    /\ UNCHANGED <<initConstants, repoType, refs, storeFaulty, oobRevisions, now, cache, semHeld, repoLock, st, task, started, obs, upd, co, ms, hb, sa, xr, proj, creds>>

----------------------------------------------------------------------------
(* checkoutRevision (lines 2758-2798) *)

\* how the git client given to checkoutRevision answers: whether the revision is
\* present locally, and the outcome of each call should it be made
GitClients ==
    [IsRevisionPresent : BOOLEAN, Init : BOOLEAN, Fetch : BOOLEAN,
     Checkout : {"ok", "ref not found", "failed"},
     FetchRevision : BOOLEAN, CheckoutFetchHead : BOOLEAN]

\* a fetch that is never skipped
SkipFetchNever(gitClient) == FALSE

\* lines 2764-2771: the default fetch is skipped when the revision is present
SkipFetch(gitClient) == gitClient.IsRevisionPresent

\* lines 2758-2798: the calls checkoutRevision makes on gitClient, in order, and
\* the error it returns ("" is nil)
checkoutRevision(gitClient, revision) ==
    LET init == <<<<"Init", "">>>>
        fetched == init \o (IF SkipFetch(gitClient) THEN <<>> ELSE <<<<"Fetch", "">>>>)
        checked == fetched \o <<<<"Checkout", revision>>>>
        refetched == checked \o <<<<"Fetch", revision>>>>
    IN
    IF ~gitClient.Init THEN [calls |-> init, err |-> "Failed to initialize git repo"]
    ELSE IF ~SkipFetch(gitClient) /\ ~gitClient.Fetch
    THEN [calls |-> fetched, err |-> "Failed to fetch default"]
    ELSE IF gitClient.Checkout = "ok" THEN [calls |-> checked, err |-> ""]
    ELSE IF ~gitClient.FetchRevision
    THEN [calls |-> refetched, err |-> "Failed to checkout revision"]
    ELSE [calls |-> refetched \o <<<<"Checkout", "FETCH_HEAD">>>>,
          err |-> IF gitClient.CheckoutFetchHead THEN "" ELSE "Failed to checkout FETCH_HEAD"]

\* checkoutRevision runs
CheckoutRevision ==
    /\ co.pc = "call"
    /\ LET r == checkoutRevision(co.gitClient, co.revision)
       IN co' = [co EXCEPT !.pc = "returned", !.calls = r.calls, !.err = r.err]
    /\ UNCHANGED <<initConstants, repoType, refs, storeFaulty, boot, oobRevisions, now, cache, semHeld, repoLock, st, task, started, obs, upd, ms, hb, sa, xr, proj, creds>>

----------------------------------------------------------------------------
(* mergeSourceParameters (lines 1694-1745) *)

\* the fields of an ApplicationSource: those that say where the source is, and
\* the parameters of a config management tool (Helm stands for them)
IdentityFields == {"RepoURL", "Path", "Chart", "TargetRevision"}
SourceFields == IdentityFields \cup {"Helm"}

\* the JSON merge patches an override file can hold: per field, no member
\* ("-"), a value, or null
Patches ==
    {p \in [SourceFields -> {"-", "other", "null"}] :
        \A f \in IdentityFields : p[f] # "null"}

\* what is at the path of an override file: nothing, a directory, something
\* os.Stat fails on, a file os.ReadFile fails on, a file that is no YAML or no
\* patch of a source, or a patch
OverrideFiles ==
    {[kind |-> k, patch |-> [f \in SourceFields |-> "-"]] :
        k \in {"missing", "dir", "stat error", "unreadable", "invalid"}}
    \cup {[kind |-> "patch", patch |-> p] : p \in Patches}

\* line 1727: jsonpatch.MergePatch, and json.Unmarshal into merged (line 1731)
MergePatch(data, patch) ==
    [f \in SourceFields |->
        IF patch[f] = "-" THEN data[f] ELSE IF patch[f] = "null" THEN "" ELSE patch[f]]

\* the reset of the location fields without TargetRevision
ResetLocationPartly(merged, source) ==
    [merged EXCEPT !.Chart = source.Chart, !.Path = source.Path, !.RepoURL = source.RepoURL]

\* lines 1738-1741: only properties of config management tools are taken
ResetLocation(merged, source) ==
    [merged EXCEPT !.Chart = source.Chart, !.Path = source.Path,
                   !.RepoURL = source.RepoURL, !.TargetRevision = source.TargetRevision]

\* lines 1703-1735: the loop over the override files from the i-th on
RECURSIVE MergeOverrides(_, _, _)
MergeOverrides(merged, overrides, i) ==
    IF i > Len(overrides) THEN [merged |-> merged, err |-> ""]
    ELSE LET file == overrides[i] IN
         IF file.kind \in {"missing", "dir"} THEN MergeOverrides(merged, overrides, i + 1)
         ELSE IF file.kind \in {"stat error", "unreadable", "invalid"}
         THEN [merged |-> merged, err |-> file.kind]
         ELSE MergeOverrides(MergePatch(merged, file.patch), overrides, i + 1)

\* lines 1694-1745: the source after the call and the error returned; files are
\* .argocd-source.yaml and .argocd-source-<appName>.yaml at the path
mergeSourceParameters(source, files, appName) ==
    LET overrides == IF appName # "" THEN files ELSE <<files[1]>>
        r == MergeOverrides(source, overrides, 1)
    IN IF r.err # "" THEN [source |-> source, err |-> r.err]
       ELSE [source |-> ResetLocation(r.merged, source), err |-> ""]

\* mergeSourceParameters runs
MergeSourceParameters ==
    /\ ms.pc = "call"
    /\ LET r == mergeSourceParameters(ms.source, ms.files, ms.appName)
       IN ms' = [ms EXCEPT !.pc = "returned", !.source = r.source, !.err = r.err]
    /\ UNCHANGED <<initConstants, repoType, refs, storeFaulty, boot, oobRevisions, now, cache, semHeld, repoLock, st, task, started, obs, upd, co, hb, sa, xr, proj, creds>>

----------------------------------------------------------------------------
(* helmTemplate and runHelmBuild (lines 1217-1237, 1357-1390) *)

\* the call of renderer r returns err; a return from runHelmBuild unlocks the key
HelmReturn(r, unlock, err) ==
    [hb EXCEPT !.call[r].pc = "done", !.call[r].err = err,
               !.lock = IF unlock THEN 0 ELSE @]

\* lines 1357-1361, 1386-1389: h.Template; a missing dependency of the first
\* attempt leads to runHelmBuild, any error of the second is returned
HelmTemplate(r) ==
    /\ hb.call[r].pc \in {"template", "retemplate"}
    /\ \E out \in {"ok", "missing dependency", "error"} :
          LET h == [hb EXCEPT !.call[r].templates = @ + 1] IN
          hb' = IF out = "missing dependency" /\ hb.call[r].pc = "template"
                THEN [h EXCEPT !.call[r].pc = "lock"]
                ELSE [h EXCEPT !.call[r].pc = "done",
                               !.call[r].err = IF out = "ok" THEN "" ELSE out]
    /\ UNCHANGED <<initConstants, repoType, refs, storeFaulty, boot, oobRevisions, now, cache, semHeld, repoLock, st, task, started, obs, upd, co, ms, sa, xr, proj, creds>>

\* line 1218: manifestGenerateLock.Lock(appPath) returns when the key is free
RunHelmBuildLock(r) ==
    /\ hb.call[r].pc = "lock"
    /\ hb.lock = 0
    /\ hb' = [hb EXCEPT !.lock = r, !.call[r].pc = "stat"]
    /\ UNCHANGED <<initConstants, repoType, refs, storeFaulty, boot, oobRevisions, now, cache, semHeld, repoLock, st, task, started, obs, upd, co, ms, sa, xr, proj, creds>>

\* a marker file that is never found
MarkerFoundNever == FALSE

\* lines 1224-1227: os.Stat finds the marker file
MarkerFound == hb.marker

\* lines 1224-1230: os.Stat(markerFile): found, runHelmBuild returns nil and the
\* template is retried; another error than "not exist" is returned
RunHelmBuildStat(r) ==
    /\ hb.call[r].pc = "stat"
    /\ IF MarkerFound THEN hb' = [hb EXCEPT !.lock = 0, !.call[r].pc = "retemplate"]
       ELSE \E ok \in BOOLEAN :
              hb' = IF ok THEN [hb EXCEPT !.call[r].pc = "build"]
                    ELSE HelmReturn(r, TRUE, "stat")
    /\ UNCHANGED <<initConstants, repoType, refs, storeFaulty, boot, oobRevisions, now, cache, semHeld, repoLock, st, task, started, obs, upd, co, ms, sa, xr, proj, creds>>

\* lines 1232-1235: h.DependencyBuild()
RunHelmBuildDependencyBuild(r) ==
    /\ hb.call[r].pc = "build"
    /\ \E ok \in BOOLEAN :
          hb' = IF ok THEN [hb EXCEPT !.call[r].pc = "mark", !.call[r].built = TRUE,
                                      !.okBuilds = @ + 1]
                ELSE HelmReturn(r, TRUE, "error building helm chart dependencies")
    /\ UNCHANGED <<initConstants, repoType, refs, storeFaulty, boot, oobRevisions, now, cache, semHeld, repoLock, st, task, started, obs, upd, co, ms, sa, xr, proj, creds>>

\* line 1236: os.WriteFile(markerFile, ...); a failed write may or may not leave
\* the file behind; its error is returned by runHelmBuild and by helmTemplate
RunHelmBuildMark(r) ==
    /\ hb.call[r].pc = "mark"
    /\ \E ok, left \in BOOLEAN :
          hb' = IF ok THEN [hb EXCEPT !.marker = TRUE, !.lock = 0, !.call[r].pc = "retemplate"]
                ELSE [HelmReturn(r, TRUE, "write") EXCEPT !.marker = left, !.writeFailed = TRUE]
    /\ UNCHANGED <<initConstants, repoType, refs, storeFaulty, boot, oobRevisions, now, cache, semHeld, repoLock, st, task, started, obs, upd, co, ms, sa, xr, proj, creds>>

----------------------------------------------------------------------------
(* Admission, source acquisition *)

\* a symlink check that finds nothing
OutOfBoundsSymlinksUnseen(tree) == FALSE

\* lines 462-463, 503-504, 532-533, 745-746, 923-925: the symlink check of an
\* acquired tree, skipped when AllowOutOfBoundsSymlinks; oobRevisions are the
\* trees holding a symlink that leaves the tree root
OutOfBoundsSymlinks(tree) ==
    ~initConstants.AllowOutOfBoundsSymlinks /\ tree \in oobRevisions

\* lines 440-446: settings.sem.Acquire(ctx, 1); no semaphore when ParallelismLimit = 0
Admit(r) ==
    /\ st[r].pc = "admit"
    /\ IF initConstants.ParallelismLimit > 0
       THEN /\ semHeld < initConstants.ParallelismLimit
            /\ semHeld' = semHeld + 1
            /\ Set(r, [st[r] EXCEPT !.pc = "acquire", !.sem = TRUE])
       ELSE /\ semHeld' = semHeld
            /\ Set(r, [st[r] EXCEPT !.pc = "acquire"])
    /\ UNCHANGED <<initConstants, repoType, refs, storeFaulty, boot, oobRevisions, now, cache, repoLock, task, started, obs, upd, co, ms, hb, sa, xr, proj, creds>>

\* lines 441-444: the request context is cancelled while Acquire waits: Acquire
\* returns ctx.Err() and holds no slot
AdmitCancelled(r) ==
    /\ st[r].pc = "admit"
    /\ initConstants.ParallelismLimit > 0
    /\ Set(r, ReturnWith(st[r], Err("cancelled", "")))
    /\ UNCHANGED <<initConstants, repoType, refs, storeFaulty, boot, oobRevisions, now, cache, semHeld, repoLock, task, started, obs, upd, co, ms, hb, sa, xr, proj, creds>>

\* the working-tree lock: IDLE, CHECKING_OUT (checkingOut = holder), HELD(revision, processCount)
LockIdle(l) == l.revision = "" /\ l.checkingOut = 0

\* a lock shared whatever revision the tree holds
LockShareableAnyRevision(l, q) ==
    l.checkingOut = 0 /\ l.revision # "" /\ l.allowConcurrent /\ q.allowConcurrent

\* the tree holds the revision asked for and both sides allow concurrent use
LockShareable(l, q) ==
    l.checkingOut = 0 /\ l.revision = q.revision /\ l.allowConcurrent /\ q.allowConcurrent

\* the lock after request r, asking for q, has been let in
LockEnter(l, r, q) ==
    IF LockIdle(l) THEN [l EXCEPT !.checkingOut = r]
    ELSE [l EXCEPT !.processCount = @ + 1]

\* the lock after one holder released its handle
LockRelease(l) ==
    IF l.processCount = 1
    THEN [l EXCEPT !.processCount = 0, !.revision = "", !.allowConcurrent = FALSE]
    ELSE [l EXCEPT !.processCount = @ - 1]

\* line 523: s.repoLock.Lock(root, revision, allowConcurrent, checkout) is called
Lock(r) ==
    /\ st[r].pc = "acquire"
    /\ repoType = "git"
    /\ LET q == st[r].q
           l == repoLock
       IN IF (LockIdle(l) /\ l.queue = <<>>) \/ LockShareable(l, q)
          THEN /\ repoLock' = LockEnter(l, r, q)
               /\ Set(r, [st[r] EXCEPT !.pc = IF LockIdle(l) THEN "checkout" ELSE "symlink",
                                      !.lock = ~LockIdle(l)])
          ELSE /\ repoLock' = [l EXCEPT !.queue = Append(@, r)]
               /\ Set(r, [st[r] EXCEPT !.pc = "lockwait"])
    /\ UNCHANGED <<initConstants, repoType, refs, storeFaulty, boot, oobRevisions, now, cache, semHeld, task, started, obs, upd, co, ms, hb, sa, xr, proj, creds>>

\* a blocked Lock call is let in: the longest waiter first
LockWake(r) ==
    /\ st[r].pc = "lockwait"
    /\ repoLock.queue # <<>>
    /\ Head(repoLock.queue) = r
    /\ LET q == st[r].q
           l == [repoLock EXCEPT !.queue = Tail(@)]
       IN /\ LockIdle(l) \/ LockShareable(l, q)
          /\ repoLock' = LockEnter(l, r, q)
          /\ Set(r, [st[r] EXCEPT !.pc = IF LockIdle(l) THEN "checkout" ELSE "symlink",
                                 !.lock = ~LockIdle(l)])
    /\ UNCHANGED <<initConstants, repoType, refs, storeFaulty, boot, oobRevisions, now, cache, semHeld, task, started, obs, upd, co, ms, hb, sa, xr, proj, creds>>

\* lines 523-528: the checkout callback (s.checkoutRevision) runs; on error the
\* lock is as before and the error goes to this caller
Checkout(r) ==
    /\ st[r].pc = "checkout"
    /\ repoLock.checkingOut = r
    /\ \E ok \in BOOLEAN :
          IF ok
          THEN /\ repoLock' = [repoLock EXCEPT !.checkingOut = 0,
                                               !.revision = st[r].q.revision,
                                               !.processCount = 1,
                                               !.allowConcurrent = st[r].q.allowConcurrent]
               /\ Set(r, [st[r] EXCEPT !.pc = "symlink", !.lock = TRUE, !.checkedOut = TRUE])
          ELSE /\ repoLock' = [repoLock EXCEPT !.checkingOut = 0]
               /\ Set(r, ReturnWith([st[r] EXCEPT !.checkedOut = TRUE], Err("checkout", "")))
    /\ UNCHANGED <<initConstants, repoType, refs, storeFaulty, boot, oobRevisions, now, cache, semHeld, task, started, obs, upd, co, ms, hb, sa, xr, proj, creds>>

\* lines 448-460, 487-502: ociClient.Extract / helmClient.ExtractChart (with the
\* CleanCache call before it when noCache); lines 728-743: CreateTempDir and
\* ReceiveManifestFileStream of the streamed files
Extract(r) ==
    /\ st[r].pc = "acquire"
    /\ repoType \in {"helm", "oci", "streamed"}
    /\ \E ok \in BOOLEAN :
          IF ok THEN Set(r, [st[r] EXCEPT !.pc = "symlink", !.extracted = TRUE])
          ELSE Set(r, ReturnWith(st[r], Err("extract", "")))
    /\ UNCHANGED <<initConstants, repoType, refs, storeFaulty, boot, oobRevisions, now, cache, semHeld, repoLock, task, started, obs, upd, co, ms, hb, sa, xr, proj, creds>>

\* AfterAcquired in which a repository's request goes on without the double-check
AfterAcquiredUnchecked(q) == "operation"

\* lines 484, 519, 560-569: with the source acquired, an OCI or Helm source goes
\* on to operation; a repository's request double-checks the cache unless noCache
AfterAcquired(q) == IF repoType = "git" /\ ~q.noCache THEN "probe2" ELSE "operation"

\* lines 462-482, 503-518, 532-558, 745-758: CheckOutOfBoundsSymlinks on the
\* acquired tree, then apppathutil.Path (oci) or gitClient.CommitSHA (git)
CheckAcquired(r) ==
    /\ st[r].pc = "symlink"
    /\ LET q == st[r].q IN
       IF OutOfBoundsSymlinks(q.revision)
       THEN Set(r, ReturnWith(st[r], Err("symlink", "")))
       ELSE \E ok \in BOOLEAN :
              /\ repoType \in {"helm", "streamed"} => ok
              /\ IF ~ok
                 THEN Set(r, ReturnWith(st[r], Err(IF repoType = "oci" THEN "apppath"
                                                   ELSE "commitsha", "")))
                 ELSE Set(r, [st[r] EXCEPT !.pc = AfterAcquired(q)])
    /\ UNCHANGED <<initConstants, repoType, refs, storeFaulty, boot, oobRevisions, now, cache, semHeld, repoLock, task, started, obs, upd, co, ms, hb, sa, xr, proj, creds>>

----------------------------------------------------------------------------
(* operation (lines 680-707) and the runManifestGenAsync goroutine *)

SetTask(r, t) == task' = [task EXCEPT ![r] = t]

\* lines 682-690: operation renders nothing for a source of several that has no
\* path and no chart: res is a response with the revision only, the error is nil.
\* line 692: otherwise runManifestGen starts the goroutine; operation then selects
\* on its channels. (GenerateManifestWithFiles calls runManifestGen itself, line 760.)
Operation(r) ==
    /\ st[r].pc = "operation"
    /\ IF refs # "none" /\ st[r].q.pathless /\ repoType # "streamed"
       THEN /\ Set(r, ReturnWith([st[r] EXCEPT !.res = Response(st[r].q.revision, 0)], NoErr))
            /\ task' = task
       ELSE /\ Set(r, [st[r] EXCEPT !.pc = "select1", !.rendered = TRUE])
            /\ SetTask(r, [IdleTask EXCEPT !.pc = "ctx"])
    /\ UNCHANGED <<initConstants, repoType, refs, storeFaulty, boot, oobRevisions, now, cache, semHeld, repoLock, started, obs, upd, co, ms, hb, sa, xr, proj, creds>>

\* lines 957-964: err != nil; the failure record is updated only when error caching is on
TaskFail(t, e) ==
    [t EXCEPT !.err = e,
              !.pc = IF initConstants.PauseGenerationAfterFailedGenerationAttempts > 0
                     THEN "failget" ELSE "senderr"]

\* line 854: opContextSrc(): signature verification and app path of a git source
TaskOpContext(r) ==
    /\ task[r].pc = "ctx"
    /\ \E ok \in BOOLEAN :
          /\ repoType # "git" => ok
          /\ IF ok THEN SetTask(r, [task[r] EXCEPT !.pc = "refs"])
             ELSE SetTask(r, TaskFail(task[r], Err("opcontext", "nosig")))
    /\ UNCHANGED <<initConstants, repoType, refs, storeFaulty, boot, oobRevisions, now, cache, semHeld, repoLock, st, started, obs, upd, co, ms, hb, sa, xr, proj, creds>>

\* TaskRefSources in which the comparison with the primary source's commit
\* comes after the referenced repository is locked
TaskRefSourcesLockFirst(r) ==
    /\ task[r].pc = "refs"
    /\ refs \notin {"none", "unknown", "undeclared", "chart"}
    /\ SetTask(r, [task[r] EXCEPT !.refLock = TRUE,
                                  !.err = IF refs = "primary" THEN Err("refprimary", "") ELSE @,
                                  !.pc = IF refs = "primary" THEN "senderr" ELSE "refsym"])
    /\ Set(r, [st[r] EXCEPT !.refAcquired = TRUE])
    /\ UNCHANGED <<initConstants, repoType, refs, storeFaulty, boot, oobRevisions, now, cache, semHeld, repoLock, started, obs, upd, co, ms, hb, sa, xr, proj, creds>>

\* lines 858-915: the loop over the "$ref" tokens, as far as the first token's
\* Lock: lookup in q.RefSources, newClientResolveRevision, the comparison with
\* the primary source's commit, s.repoLock.Lock on the referenced repository
\* with its checkout. An error (of newClientResolveRevision or of Lock: ~ok)
\* goes to errCh and the goroutine returns.
TaskRefSources(r) ==
    /\ task[r].pc = "refs"
    /\ IF refs = "none"
       THEN SetTask(r, [task[r] EXCEPT !.pc = "render"]) /\ st' = st
       ELSE IF refs \in {"unknown", "undeclared", "chart"}
       THEN SetTask(r, [task[r] EXCEPT !.err = resolveReferencedSources, !.pc = "senderr"])
            /\ st' = st
       ELSE \E ok \in BOOLEAN :
              IF ~ok
              THEN SetTask(r, [task[r] EXCEPT !.err = Err("refsource", ""), !.pc = "senderr"])
                   /\ st' = st
              ELSE IF refs = "primary"
              THEN SetTask(r, [task[r] EXCEPT !.err = Err("refprimary", ""), !.pc = "senderr"])
                   /\ st' = st
              ELSE /\ SetTask(r, [task[r] EXCEPT !.refLock = TRUE, !.pc = "refsym"])
                   /\ Set(r, [st[r] EXCEPT !.refAcquired = TRUE])
    /\ UNCHANGED <<initConstants, repoType, refs, storeFaulty, boot, oobRevisions, now, cache, semHeld, repoLock, started, obs, upd, co, ms, hb, sa, xr, proj, creds>>

\* TaskRefSymlinks in which a second token of the same repository is not
\* compared with the first
TaskRefSymlinksUncompared(r) ==
    /\ task[r].pc = "refsym"
    /\ IF OutOfBoundsSymlinks("ref")
       THEN SetTask(r, [task[r] EXCEPT !.err = Err("symlink", ""), !.pc = "senderr"])
       ELSE SetTask(r, [task[r] EXCEPT !.pc = "render", !.repoRefs = RefCommit])
    /\ UNCHANGED <<initConstants, repoType, refs, storeFaulty, boot, oobRevisions, now, cache, semHeld, repoLock, st, started, obs, upd, co, ms, hb, sa, xr, proj, creds>>

\* lines 916-945: with the referenced repository locked: the symlink check of its
\* tree, then the next token, which for a second token of the same repository
\* compares the target revisions (lines 890-895)
TaskRefSymlinks(r) ==
    /\ task[r].pc = "refsym"
    /\ IF OutOfBoundsSymlinks("ref")
       THEN SetTask(r, [task[r] EXCEPT !.err = Err("symlink", ""), !.pc = "senderr"])
       ELSE IF refs = "conflict"
       THEN SetTask(r, [task[r] EXCEPT !.err = Err("refconflict", ""), !.pc = "senderr"])
       ELSE SetTask(r, [task[r] EXCEPT !.pc = "render", !.repoRefs = RefCommit])
    /\ UNCHANGED <<initConstants, repoType, refs, storeFaulty, boot, oobRevisions, now, cache, semHeld, repoLock, st, started, obs, upd, co, ms, hb, sa, xr, proj, creds>>

\* the manifests a render of request q produces
Rendered(t, q, g) == [t EXCEPT !.out = Response(q.revision, g), !.pc = "okset"]

\* line 949: GenerateManifests; a plugin render gets as far as the tar upload
TaskRender(r) ==
    /\ task[r].pc = "render"
    /\ \E e \in RenderErrors \cup {""} :
          IF e # ""
          THEN SetTask(r, TaskFail(task[r], Err("render", e)))
          ELSE IF st[r].q.plugin
          THEN SetTask(r, [task[r] EXCEPT !.pc = "sendtar"])
          ELSE SetTask(r, Rendered(task[r], st[r].q, st[r].id))
    /\ Set(r, [st[r] EXCEPT !.generated = TRUE])
    /\ UNCHANGED <<initConstants, repoType, refs, storeFaulty, boot, oobRevisions, now, cache, semHeld, repoLock, started, obs, upd, co, ms, hb, sa, xr, proj, creds>>

\* generateManifestsCMP: the plugin's reply (or failure) after the upload
TaskPluginReply(r) ==
    /\ task[r].pc = "plugin"
    /\ \E e \in RenderErrors \cup {""} :
          IF e # ""
          THEN SetTask(r, TaskFail(task[r], Err("render", e)))
          ELSE SetTask(r, Rendered(task[r], st[r].q, st[r].id))
    /\ UNCHANGED <<initConstants, repoType, refs, storeFaulty, boot, oobRevisions, now, cache, semHeld, repoLock, st, started, obs, upd, co, ms, hb, sa, xr, proj, creds>>

\* lines 1012-1016: the error of the store is logged; the response is sent
AfterSuccessWrite(t, fail) == [t EXCEPT !.pc = "sendresp"]

\* lines 951-956: the key of the goroutine's cache calls: the commit and the
\* commits of the referenced repositories the goroutine has itself put into its
\* repoRefs map (line 941), which is empty when opContextSrc failed (line 855)
WriteKey(r) == ManifestKey(st[r].q.revision, task[r].repoRefs)

\* lines 969-975: read the latest copy of the entry; an error that is no miss
\* goes to errCh in place of the render's error
TaskFailureRead(r) ==
    /\ task[r].pc = "failget"
    /\ \E fail \in StoreOutcomes :
          IF fail
          THEN /\ SetTask(r, [task[r] EXCEPT !.err = Err("store", "get"), !.pc = "senderr"])
               /\ Set(r, [st[r] EXCEPT !.storeErrs = @ \cup {"failget"}])
          ELSE /\ SetTask(r, [task[r] EXCEPT !.innerRes = GetManifests(WriteKey(r)),
                                             !.pc = "failset"])
               /\ st' = st
    /\ UNCHANGED <<initConstants, repoType, refs, storeFaulty, boot, oobRevisions, now, cache, semHeld, repoLock, started, obs, upd, co, ms, hb, sa, xr, proj, creds>>

\* lines 979-994: write the failure record back; the store's error goes to
\* errCh in place of the render's error
TaskFailureWrite(r) ==
    /\ task[r].pc = "failset"
    /\ \E fail \in StoreOutcomes :
          IF fail
          THEN /\ cache' = cache
               /\ SetTask(r, [task[r] EXCEPT !.err = Err("store", "set"), !.pc = "senderr"])
               /\ Set(r, [st[r] EXCEPT !.storeErrs = @ \cup {"failset"}])
          ELSE /\ cache' = SetManifests(WriteKey(r), FailureUpdate(task[r].innerRes, task[r].err))
               /\ SetTask(r, [task[r] EXCEPT !.pc = "senderr"])
               /\ Set(r, [st[r] EXCEPT !.failedAt = now])
    /\ UNCHANGED <<initConstants, repoType, refs, storeFaulty, boot, oobRevisions, now, semHeld, repoLock, started, obs, upd, co, ms, hb, sa, xr, proj, creds>>

\* lines 1003-1016: write the success entry
TaskSuccessWrite(r) ==
    /\ task[r].pc = "okset"
    /\ \E fail \in StoreOutcomes :
          /\ cache' = IF fail THEN cache ELSE SetManifests(WriteKey(r), SuccessEntry(task[r].out))
          /\ SetTask(r, AfterSuccessWrite(task[r], fail))
          /\ Set(r, [st[r] EXCEPT !.prior = IF fail THEN @ ELSE GetManifests(WriteKey(r)),
                                  !.storeErrs = IF fail THEN @ \cup {"okset"} ELSE @])
    /\ UNCHANGED <<initConstants, repoType, refs, storeFaulty, boot, oobRevisions, now, semHeld, repoLock, started, obs, upd, co, ms, hb, sa, xr, proj, creds>>

\* what GenerateManifest does on a value received in the first select (inside
\* operation) or in the second (lines 716-723)
OnTarDone(s) == [ReturnWith(s, NoErr) EXCEPT !.tarConcluded = TRUE]
OnResponse(s, resp) ==
    IF s.pc = "select1" THEN [ReturnWith(s, NoErr) EXCEPT !.res = resp]
    ELSE [s EXCEPT !.res = resp, !.pc = "done"]
OnError(s, e) ==
    IF s.pc = "select1" THEN ReturnWith(s, e)
    ELSE [s EXCEPT !.res = NoResponse, !.err = e, !.pc = "done"]

\* the goroutine returns from runManifestGenAsync after its send: with a lock on
\* the referenced repository its deferred closer (lines 916-921) has yet to run
TaskReturns(t) == IF t.refLock THEN [t EXCEPT !.pc = "defer", !.sent = @ + 1] ELSE IdleTask

\* the goroutine after an error it sent was received: it returns, except after
\* the send of line 876 (a token while q.RefSources is empty), which has no
\* return: the goroutine goes on to the send of line 881
AfterErrorSent(t) ==
    IF t.err.type = "undeclaredref"
    THEN [t EXCEPT !.err = Err("unresolvedref", ""), !.sent = @ + 1]
    ELSE TaskReturns(t)

\* lines 916-921, 843-846: the deferred closer releases the referenced repository
TaskDeferred(r) ==
    /\ task[r].pc = "defer"
    /\ SetTask(r, IdleTask)
    /\ UNCHANGED <<initConstants, repoType, refs, storeFaulty, boot, oobRevisions, now, cache, semHeld, repoLock, st, started, obs, upd, co, ms, hb, sa, xr, proj, creds>>

\* tarDoneCh <- true meets case tarDone := <-promise.tarDoneCh
ReceiveTarDone(r) ==
    /\ st[r].pc = "select1"
    /\ task[r].pc = "sendtar"
    /\ Set(r, OnTarDone(st[r]))
    /\ SetTask(r, [task[r] EXCEPT !.pc = "plugin"])
    /\ UNCHANGED <<initConstants, repoType, refs, storeFaulty, boot, oobRevisions, now, cache, semHeld, repoLock, started, obs, upd, co, ms, hb, sa, xr, proj, creds>>

\* ch.responseCh <- response meets a receive; the goroutine ends, closing its channels
ReceiveResponse(r) ==
    /\ st[r].pc \in {"select1", "select2"}
    /\ task[r].pc = "sendresp"
    /\ Set(r, OnResponse(st[r], task[r].out))
    /\ SetTask(r, TaskReturns(task[r]))
    /\ UNCHANGED <<initConstants, repoType, refs, storeFaulty, boot, oobRevisions, now, cache, semHeld, repoLock, started, obs, upd, co, ms, hb, sa, xr, proj, creds>>

\* ch.errCh <- err meets a receive; the goroutine ends, closing its channels
ReceiveError(r) ==
    /\ st[r].pc \in {"select1", "select2"}
    /\ task[r].pc = "senderr"
    /\ Set(r, OnError(st[r], task[r].err))
    /\ SetTask(r, AfterErrorSent(task[r]))
    /\ UNCHANGED <<initConstants, repoType, refs, storeFaulty, boot, oobRevisions, now, cache, semHeld, repoLock, started, obs, upd, co, ms, hb, sa, xr, proj, creds>>

\* lines 716-724: after runRepoOperation returned
AfterRunRepoOperation(s) ==
    [s EXCEPT !.pc = IF s.tarConcluded /\ s.res = NoResponse THEN "select2" ELSE "done",
              !.sem = FALSE, !.lock = FALSE, !.extracted = FALSE]

\* runRepoOperation returns: the deferred closer (lock handle or extraction) and
\* sem.Release run, then GenerateManifest goes on
Return(r) ==
    /\ st[r].pc = "return"
    /\ repoLock' = IF st[r].lock THEN LockRelease(repoLock) ELSE repoLock
    /\ semHeld' = IF st[r].sem THEN semHeld - 1 ELSE semHeld
    /\ Set(r, AfterRunRepoOperation(st[r]))
    /\ UNCHANGED <<initConstants, repoType, refs, storeFaulty, boot, oobRevisions, now, cache, task, started, obs, upd, co, ms, hb, sa, xr, proj, creds>>

\* The observer of key k follows the requests returned for k from the empty
\* cache while they are: first N = PauseGenerationAfterFailedGenerationAttempts
\* failed renders, then requests whose first probe came before the pause minutes
\* had elapsed since the first failure, all with noCache = false. n counts them,
\* msg is the message of the latest failed render, last is the latest outcome.
Observe(o, s) ==
    LET N == initConstants.PauseGenerationAfterFailedGenerationAttempts
        M == initConstants.PauseGenerationOnFailureForRequests
        late == /\ initConstants.PauseGenerationOnFailureForMinutes > 0
                /\ (s.firstProbedAt - o.t0) \div SecondsPerMinute
                      >= initConstants.PauseGenerationOnFailureForMinutes
    IN
    IF ~o.on THEN o
    ELSE IF s.q.noCache \/ N = 0 \/ M = 0 \/ o.n > N + M \/ s.err.type = "resolve" THEN NoObs
    ELSE IF o.n < N
    THEN IF s.failedAt > 0 /\ s.err.type = "render"
         THEN [o EXCEPT !.n = @ + 1, !.msg = s.err.msg,
                        !.t0 = IF o.n = 0 THEN s.failedAt ELSE @]
         ELSE NoObs
    ELSE IF late \/ s.err.type \in AcquisitionErrors \cup {"opcontext", "refsource"} THEN NoObs
    ELSE [o EXCEPT !.n = @ + 1,
                   !.last = [cached |-> s.err.type = cachedManifestGenerationPrefix,
                             msg |-> s.err.msg, rendered |-> s.generated]]

\* lines 3152-3178: updateCachedRevision; with "$ref" tokens every resolved
\* revision of repoRefs is replaced by newRev (lines 3162-3164) before the
\* entry is moved; an error of the resolution of the references is returned, and
\* only logged by the caller
updateCachedRevision(oldRev, newRev, refsOk) ==
    IF repoRefs # "" /\ ~refsOk THEN cache
    ELSE SetNewRevisionManifests(newRev, oldRev, IF repoRefs # "" THEN newRev ELSE "")

\* lines 3067-3150: UpdateRevisionForPaths(syncedRevision, revision, paths) with both
\* revisions resolved, called while no request holds the working tree; ok: the
\* resolution, the Lock with its checkout, the fetch and ChangedFiles succeed;
\* changed: a file under the paths differs between the revisions
UpdateRevisionForPaths(syncedRevision, revision, hasPaths) ==
    /\ upd.n < MaxUpdates
    /\ repoType = "git"
    /\ \A r \in Reqs : st[r].pc = "idle" /\ task[r].pc = "none"
    /\ LockIdle(repoLock)
    /\ \E ok, changed, refsOk \in BOOLEAN :
          LET call == [NoUpdate EXCEPT !.n = upd.n + 1, !.syncedRevision = syncedRevision,
                                       !.revision = revision]
          IN IF ~hasPaths THEN upd' = call /\ cache' = cache
             ELSE IF ~ok THEN upd' = [call EXCEPT !.err = TRUE] /\ cache' = cache
             ELSE IF revision = syncedRevision
             THEN upd' = [call EXCEPT !.Revision = revision] /\ cache' = cache
             ELSE IF changed
             THEN upd' = [call EXCEPT !.Revision = revision, !.Changes = TRUE] /\ cache' = cache
             ELSE /\ upd' = [call EXCEPT !.Revision = revision, !.unchanged = TRUE]
                  /\ cache' = updateCachedRevision(syncedRevision, revision, refsOk)
    /\ UNCHANGED <<initConstants, repoType, refs, storeFaulty, boot, oobRevisions, now, semHeld, repoLock, st, task, started, obs, co, ms, hb, sa, xr, proj, creds>>

\* GenerateManifest has returned (res, err) to its caller
Finish(r) ==
    /\ st[r].pc = "done"
    /\ obs' = [obs EXCEPT ![Key(st[r].q)] = Observe(@, st[r])]
    /\ Set(r, IdleSt)
    /\ UNCHANGED <<initConstants, repoType, refs, storeFaulty, boot, oobRevisions, now, cache, semHeld, repoLock, task, started, upd, co, ms, hb, sa, xr, proj, creds>>

\* time passes
Tick ==
    /\ now < StartTime + 30 * MaxTicks
    /\ now' = now + 30
    /\ UNCHANGED <<initConstants, repoType, refs, storeFaulty, boot, oobRevisions, cache, semHeld, repoLock, st, task, started, obs, upd, co, ms, hb, sa, xr, proj, creds>>

----------------------------------------------------------------------------
(* deriveServiceAccountToImpersonate: the service account a sync impersonates *)

\* names and patterns are sequences of characters; "*" in a pattern stands for
\* any run of characters and "[" opens a character class
MaxAccounts == 2

ApplicationNamespace == <<"a">>
DestinationNamespaces == {<<>>, <<"t">>, <<"t", "n">>, <<"d">>}
ClusterServers == {<<"k">>, <<"x">>}
NamespacePatterns == {<<>>, <<"t">>, <<"t", "*">>, <<"*">>, <<"[", "t">>, <<"d">>}
ServerPatterns == {<<"k">>, <<"*">>, <<"[">>}
DefaultServiceAccounts == {<<"sa1">>, <<"sa2">>, <<"ns", "sa1">>}

ApplicationDestinationServiceAccounts ==
    [Server : ServerPatterns, Namespace : NamespacePatterns,
     DefaultServiceAccount : DefaultServiceAccounts]

\* a pattern compiles unless a character class is left open
GlobCompiles(pattern) == \A i \in 1..Len(pattern) : pattern[i] # "["

RECURSIVE GlobMatch(_, _)
GlobMatch(pattern, text) ==
    IF pattern = <<>> THEN text = <<>>
    ELSE IF Head(pattern) = "*"
         THEN GlobMatch(Tail(pattern), text)
              \/ (text # <<>> /\ GlobMatch(pattern, Tail(text)))
         ELSE /\ text # <<>>
              /\ Head(pattern) = Head(text)
              /\ GlobMatch(Tail(pattern), Tail(text))

NoAccount == <<>>
NoDerive ==
    [pc |-> "idle", accounts |-> <<>>, destination |-> <<>>, server |-> <<>>,
     account |-> NoAccount, err |-> ""]

\* "system:serviceaccount:<namespace>:<name>"
ServiceAccountName(namespace, account) ==
    IF Len(account) = 2
    THEN <<"system", "serviceaccount", account[1], account[2]>>
    ELSE <<"system", "serviceaccount", namespace, account[1]>>

\* the namespace of an account given without one
ServiceAccountNamespaceAlways(destination) == destination
ServiceAccountNamespace(destination) ==
    IF destination = <<>> THEN ApplicationNamespace ELSE destination

RECURSIVE DeriveFrom(_, _, _)
DeriveFrom(accounts, destination, server) ==
    IF accounts = <<>>
    THEN [account |-> NoAccount, err |-> "no matching service account found"]
    ELSE LET item == Head(accounts) IN
         IF ~GlobCompiles(item.Server)
         THEN [account |-> NoAccount, err |-> "invalid glob pattern for destination server"]
         ELSE IF ~GlobCompiles(item.Namespace)
         THEN [account |-> NoAccount, err |-> "invalid glob pattern for destination namespace"]
         ELSE IF GlobMatch(item.Server, server) /\ GlobMatch(item.Namespace, destination)
         THEN [account |-> ServiceAccountName(ServiceAccountNamespace(destination),
                                              item.DefaultServiceAccount),
               err |-> ""]
         ELSE DeriveFrom(Tail(accounts), destination, server)

deriveServiceAccountToImpersonate(accounts, destination, server) ==
    DeriveFrom(accounts, destination, server)

DeriveServiceAccountToImpersonate ==
    /\ sa.pc = "call"
    /\ LET out == deriveServiceAccountToImpersonate(sa.accounts, sa.destination, sa.server)
       IN sa' = [sa EXCEPT !.pc = "done", !.account = out.account, !.err = out.err]
    /\ UNCHANGED <<initConstants, repoType, refs, storeFaulty, boot, oobRevisions, now, cache, semHeld, repoLock, st, task, started, obs, upd, co, ms, hb, xr, proj, creds>>

----------------------------------------------------------------------------
(* Two repositories whose sources reference each other (lines 523-530, 908-921) *)

Trees == {"X", "Y"}
Other(tree) == IF tree = "X" THEN "Y" ELSE "X"

\* a request for a source in the repository of tree at revision, with a "$ref"
\* value file in the other repository at refRevision; pc is the position of
\* runRepoOperation / operation, tpc that of the runManifestGenAsync goroutine
NoCrossRequest ==
    [pc |-> "idle", tpc |-> "none", tree |-> "X", revision |-> "r1", refRevision |-> "r1"]
NoCross == [lock |-> [t \in Trees |-> IdleLock], req |-> [r \in Reqs |-> NoCrossRequest]]

\* s.repoLock.Lock(root, revision, true, checkout) does not block: the tree is
\* idle or holds the revision asked for
TreeFree(l, revision) ==
    LockIdle(l) \/ LockShareable(l, [revision |-> revision, allowConcurrent |-> TRUE])

\* the lock after the call was let in and, on an idle tree, its checkout ended
TreeTake(l, revision) ==
    IF LockIdle(l)
    THEN [l EXCEPT !.revision = revision, !.processCount = 1, !.allowConcurrent = TRUE]
    ELSE [l EXCEPT !.processCount = @ + 1]

SetCross(r, f) == [xr EXCEPT !.req[r] = f]

\* lines 523-530: runRepoOperation locks the tree of the request's repository
CrossLock(r) ==
    LET q == xr.req[r] IN
    /\ q.pc = "acquire"
    /\ TreeFree(xr.lock[q.tree], q.revision)
    /\ xr' = [xr EXCEPT !.lock[q.tree] = TreeTake(@, q.revision), !.req[r].pc = "operation"]
    /\ UNCHANGED <<initConstants, repoType, refs, storeFaulty, boot, oobRevisions, now, cache, semHeld, repoLock, st, task, started, obs, upd, co, ms, hb, sa, proj, creds>>

\* lines 692-707: operation starts the goroutine and selects on its channels
CrossOperation(r) ==
    /\ xr.req[r].pc = "operation"
    /\ xr' = [xr EXCEPT !.req[r].pc = "select", !.req[r].tpc = "reflock"]
    /\ UNCHANGED <<initConstants, repoType, refs, storeFaulty, boot, oobRevisions, now, cache, semHeld, repoLock, st, task, started, obs, upd, co, ms, hb, sa, proj, creds>>

\* lines 908-921: the goroutine locks the tree of the referenced repository
CrossRefLock(r) ==
    LET q == xr.req[r] IN
    /\ q.tpc = "reflock"
    /\ TreeFree(xr.lock[Other(q.tree)], q.refRevision)
    /\ xr' = [xr EXCEPT !.lock[Other(q.tree)] = TreeTake(@, q.refRevision),
                        !.req[r].tpc = "render"]
    /\ UNCHANGED <<initConstants, repoType, refs, storeFaulty, boot, oobRevisions, now, cache, semHeld, repoLock, st, task, started, obs, upd, co, ms, hb, sa, proj, creds>>

\* line 949: GenerateManifests ends; the goroutine goes to send what it has
CrossRender(r) ==
    /\ xr.req[r].tpc = "render"
    /\ xr' = [xr EXCEPT !.req[r].tpc = "send"]
    /\ UNCHANGED <<initConstants, repoType, refs, storeFaulty, boot, oobRevisions, now, cache, semHeld, repoLock, st, task, started, obs, upd, co, ms, hb, sa, proj, creds>>

\* lines 698-707: the send meets the select of operation; the goroutine returns
CrossReceive(r) ==
    /\ xr.req[r].pc = "select"
    /\ xr.req[r].tpc = "send"
    /\ xr' = [xr EXCEPT !.req[r].pc = "return", !.req[r].tpc = "defer"]
    /\ UNCHANGED <<initConstants, repoType, refs, storeFaulty, boot, oobRevisions, now, cache, semHeld, repoLock, st, task, started, obs, upd, co, ms, hb, sa, proj, creds>>

\* line 530: runRepoOperation returns, its deferred Close releases the tree
CrossReturn(r) ==
    LET q == xr.req[r] IN
    /\ q.pc = "return"
    /\ xr' = [xr EXCEPT !.lock[q.tree] = LockRelease(@), !.req[r].pc = "done"]
    /\ UNCHANGED <<initConstants, repoType, refs, storeFaulty, boot, oobRevisions, now, cache, semHeld, repoLock, st, task, started, obs, upd, co, ms, hb, sa, proj, creds>>

\* lines 916-921: the goroutine's deferred Close releases the referenced tree
CrossDeferred(r) ==
    LET q == xr.req[r] IN
    /\ q.tpc = "defer"
    /\ xr' = [xr EXCEPT !.lock[Other(q.tree)] = LockRelease(@), !.req[r].tpc = "none"]
    /\ UNCHANGED <<initConstants, repoType, refs, storeFaulty, boot, oobRevisions, now, cache, semHeld, repoLock, st, task, started, obs, upd, co, ms, hb, sa, proj, creds>>

----------------------------------------------------------------------------
(* AppProject (pkg/apis/application/v1alpha1/app_project_types.go) *)

MaxSourceRepos == 2

\* repository URLs and patterns are sequences of characters; ".git" is the
\* suffix, "!" as first character makes a SourceRepos entry a deny pattern
SourceURLs == {<<"a">>, <<"A", ".git">>, <<"a", "/", "b">>, <<"c">>}
AllowPatterns == {<<"*">>, <<"a">>, <<"A", ".git">>, <<"a", "/", "*">>}
SourceRepoEntries == AllowPatterns \cup {<<"!">> \o p : p \in AllowPatterns}

\* Roles: the roles of proj.Spec with their token lists in spec and in status;
\* Orphans: the entries of proj.Status.JWTTokensByRole of roles not in the spec;
\* call, before, args, old, ret, err: the last call, the call before it, its
\* arguments, the token lists before it and what it returned
NoProject ==
    [pc |-> "idle", SourceRepos |-> <<>>, RepoURL |-> <<>>, permitted |-> FALSE,
     Roles |-> <<>>, Orphans |-> {}, calls |-> 0, call |-> "", before |-> "",
     args |-> [roleIndex |-> 0, issuedAt |-> -1, id |-> ""], old |-> <<>>,
     ret |-> FALSE, err |-> FALSE]

\* git.NormalizeGitURL: lower case, without the ".git" suffix
NormalizeGitURL(url) ==
    LET lower == [i \in 1..Len(url) |-> IF url[i] = "A" THEN "a" ELSE url[i]]
    IN IF lower # <<>> /\ lower[Len(lower)] = ".git"
       THEN SubSeq(lower, 1, Len(lower) - 1)
       ELSE lower

\* glob.Match(pattern, val, '/'): "*" stands for any run of characters other
\* than the separator
RECURSIVE GlobMatchSeparated(_, _)
GlobMatchSeparated(pattern, val) ==
    IF pattern = <<>> THEN val = <<>>
    ELSE IF Head(pattern) = "*"
         THEN GlobMatchSeparated(Tail(pattern), val)
              \/ (val # <<>> /\ Head(val) # "/" /\ GlobMatchSeparated(pattern, Tail(val)))
         ELSE /\ val # <<>>
              /\ Head(pattern) = Head(val)
              /\ GlobMatchSeparated(Tail(pattern), Tail(val))

\* lines 495-497
isDenyPattern(pattern) == pattern # <<>> /\ Head(pattern) = "!"

\* lines 412-421
globMatch(pattern, val, allowNegation) ==
    IF allowNegation /\ isDenyPattern(pattern)
    THEN ~GlobMatchSeparated(Tail(pattern), val)
    ELSE IF pattern = <<"*">> THEN TRUE
    ELSE GlobMatchSeparated(pattern, val)

\* lines 423-446: the loop over proj.Spec.SourceRepos from entry i on
RECURSIVE SourcePermittedFrom(_, _, _, _)
SourcePermittedFrom(sourceRepos, i, srcNormalized, anySourceMatched) ==
    IF i > Len(sourceRepos) THEN anySourceMatched
    ELSE LET repoURL == sourceRepos[i]
             normalized == IF isDenyPattern(repoURL)
                           THEN <<"!">> \o NormalizeGitURL(Tail(repoURL))
                           ELSE NormalizeGitURL(repoURL)
             matched == globMatch(normalized, srcNormalized, TRUE)
         IN IF matched THEN SourcePermittedFrom(sourceRepos, i + 1, srcNormalized, TRUE)
            ELSE IF isDenyPattern(normalized) THEN FALSE
            ELSE SourcePermittedFrom(sourceRepos, i + 1, srcNormalized, anySourceMatched)

IsSourcePermitted(sourceRepos, repoURL) ==
    SourcePermittedFrom(sourceRepos, 1, NormalizeGitURL(repoURL), FALSE)

MaxTokens == 2
MaxCalls == 2

\* JWT tokens: an empty ID is a token of the older format
TokenIDs == {"", "x", "y"}
IssueTimes == {1, 2}
JWTToken == [ID : TokenIDs, IssuedAt : IssueTimes]

\* strconv.FormatInt(n, 10)
FormatInt(n) == <<"1", "2", "3">>[n]

\* A Go slice is a prefix of its backing array. A role holds the backing array
\* of its spec token list (specArr) and the length of the list (specLen, -1
\* for a nil slice); its status token list is a prefix of the same array
\* (shared) or of an array of its own (statArr), of length statLen.
TokensInSpec(role) ==
    IF role.specLen = -1 THEN <<>> ELSE SubSeq(role.specArr, 1, role.specLen)
StatusArr(role) == IF role.shared THEN role.specArr ELSE role.statArr
TokensInStatus(role) ==
    IF role.statLen = -1 THEN <<>> ELSE SubSeq(StatusArr(role), 1, role.statLen)
SetStatusArr(role, arr) ==
    IF role.shared THEN [role EXCEPT !.specArr = arr] ELSE [role EXCEPT !.statArr = arr]

\* a role as decoded from the stored project: the two lists share nothing
DecodedRole(name, inSpec, inStatus, specNil, statNil) ==
    [name |-> name, shared |-> FALSE,
     specArr |-> inSpec, specLen |-> IF specNil THEN -1 ELSE Len(inSpec),
     statArr |-> inStatus, statLen |-> IF statNil THEN -1 ELSE Len(inStatus)]

\* lines 76-92 and 98-114: index of the token by id, if not by issuedAt; 0 when
\* there is none
TokenIndex(tokens, issuedAt, id) ==
    LET byID == {i \in 1..Len(tokens) : tokens[i].ID = id}
        byTime == {i \in 1..Len(tokens) : tokens[i].IssuedAt = issuedAt}
        First(S) == CHOOSE i \in S : \A j \in S : i <= j
    IN IF id # "" /\ byID # {} THEN First(byID)
       ELSE IF issuedAt # -1 /\ byTime # {} THEN First(byTime)
       ELSE 0
GetJWTTokenFromSpec(role, issuedAt, id) == TokenIndex(TokensInSpec(role), issuedAt, id)
GetJWTToken(role, issuedAt, id) == TokenIndex(TokensInStatus(role), issuedAt, id)

\* lines 121-125: the last token of the list is written over the token found,
\* in the backing array, and the list is cut by one
RemoveFromSpec(role, issuedAt, id) ==
    LET jwtTokenIndex == GetJWTTokenFromSpec(role, issuedAt, id)
    IN IF jwtTokenIndex = 0 THEN role
       ELSE [role EXCEPT !.specArr = [@ EXCEPT ![jwtTokenIndex] = role.specArr[role.specLen]],
                         !.specLen = @ - 1]

\* lines 128-132
RemoveFromStatus(role, issuedAt, id) ==
    LET jwtTokenIndex == GetJWTToken(role, issuedAt, id)
        arr == StatusArr(role)
    IN IF jwtTokenIndex = 0 THEN role
       ELSE [SetStatusArr(role, [arr EXCEPT ![jwtTokenIndex] = arr[role.statLen]])
                EXCEPT !.statLen = @ - 1]

TokenLists(roles) ==
    [i \in 1..Len(roles) |-> [spec |-> TokensInSpec(roles[i]), status |-> TokensInStatus(roles[i])]]

\* lines 117-140
RemoveJWTToken(roleIndex, issuedAt, id) ==
    /\ proj.pc = "tokens"
    /\ proj.calls < MaxCalls
    /\ LET role == proj.Roles[roleIndex]
           err1 == GetJWTTokenFromSpec(role, issuedAt, id) = 0
           cut == RemoveFromSpec(role, issuedAt, id)
           err2 == GetJWTToken(cut, issuedAt, id) = 0
       IN proj' = [proj EXCEPT !.Roles[roleIndex] = RemoveFromStatus(cut, issuedAt, id),
                               !.calls = @ + 1,
                               !.before = proj.call,
                               !.call = "RemoveJWTToken",
                               !.args = [roleIndex |-> roleIndex, issuedAt |-> issuedAt, id |-> id],
                               !.old = TokenLists(proj.Roles),
                               !.ret = FALSE,
                               !.err = err1 /\ err2]
    /\ UNCHANGED <<initConstants, repoType, refs, storeFaulty, boot, oobRevisions, now, cache, semHeld, repoLock, st, task, started, obs, upd, co, ms, hb, sa, xr, creds>>

\* lines 504-508 and 514-518: the tokens of a list get their ID in place
WithIDs(arr, n) ==
    [i \in 1..Len(arr) |->
        IF i <= n /\ arr[i].ID = "" THEN [arr[i] EXCEPT !.ID = FormatInt(arr[i].IssuedAt)]
        ELSE arr[i]]
LacksID(tokens) == \E i \in 1..Len(tokens) : tokens[i].ID = ""
RoleWithIDs(role) ==
    LET inSpec == [role EXCEPT !.specArr = WithIDs(@, role.specLen)]
    IN SetStatusArr(inSpec, WithIDs(StatusArr(inSpec), inSpec.statLen))

\* sort.Slice by IssuedAt descending of a list of fewer than 12 tokens: an
\* insertion sort, tokens of one IssuedAt keep their order
RECURSIVE SortSlice(_)
SortSlice(tokens) ==
    IF tokens = <<>> THEN <<>>
    ELSE LET front == SortSlice(SubSeq(tokens, 1, Len(tokens) - 1))
             token == tokens[Len(tokens)]
             k == Cardinality({i \in 1..Len(front) : front[i].IssuedAt >= token.IssuedAt})
         IN SubSeq(front, 1, k) \o <<token>> \o SubSeq(front, k + 1, Len(front))
SortedInPlace(arr, n) ==
    IF n < 1 THEN arr ELSE SortSlice(SubSeq(arr, 1, n)) \o SubSeq(arr, n + 1, Len(arr))

\* lines 566-581: tokensMap keeps for every ID the last token of
\* append(tokens1, tokens2...) with that ID; the map is listed in any order and
\* sorted, so tokens of one IssuedAt come out in any order
jwtTokensCombine(tokens1, tokens2) ==
    LET all == tokens1 \o tokens2
        tokensMap == {all[i] : i \in {i \in 1..Len(all) :
                                        \A j \in (i + 1)..Len(all) : all[j].ID # all[i].ID}}
    IN {tokens \in [1..Cardinality(tokensMap) -> tokensMap] :
            /\ \A i, j \in 1..Cardinality(tokensMap) : i < j =>
                   /\ tokens[i] # tokens[j]
                   /\ tokens[i].IssuedAt >= tokens[j].IssuedAt}

\* one outcome for every role
RECURSIVE Products(_)
Products(sets) ==
    IF sets = <<>> THEN {<<>>}
    ELSE {<<head>> \o tail : head \in Head(sets), tail \in Products(Tail(sets))}

\* cmp.Equal of two token slices, one given by its list and its length (-1 for
\* nil): a nil slice and an empty one differ
SliceEqual(tokens, list, n) ==
    /\ tokens = list
    /\ (tokens = <<>>) => (n = -1)

\* lines 528-553, one role, with `tokens` the outcome of jwtTokensCombine
syncRole(role, tokens) ==
    LET bySpec == [role EXCEPT !.specArr = SortedInPlace(@, role.specLen)]
        sorted == SetStatusArr(bySpec, SortedInPlace(StatusArr(bySpec), bySpec.statLen))
        length == IF tokens = <<>> THEN -1 ELSE Len(tokens)
    IN [role |-> [name |-> role.name, shared |-> TRUE, specArr |-> tokens, specLen |-> length,
                  statArr |-> <<>>, statLen |-> length],
        needSync |-> \/ ~SliceEqual(tokens, TokensInSpec(sorted), sorted.specLen)
                     \/ ~SliceEqual(tokens, TokensInStatus(sorted), sorted.statLen)]

\* lines 499-523 with 525-564
NormalizeJWTTokens ==
    /\ proj.pc = "tokens"
    /\ proj.calls < MaxCalls
    /\ LET needNormalize ==
               \/ \E i \in 1..Len(proj.Roles) :
                      LacksID(TokensInSpec(proj.Roles[i])) \/ LacksID(TokensInStatus(proj.Roles[i]))
               \/ \E entry \in proj.Orphans : LacksID(entry.Items)
           withIDs == [i \in 1..Len(proj.Roles) |-> RoleWithIDs(proj.Roles[i])]
       IN \E combined \in Products([i \in 1..Len(proj.Roles) |->
                  jwtTokensCombine(TokensInStatus(withIDs[i]), TokensInSpec(withIDs[i]))]) :
             /\ TRUE
             /\ LET synced == [i \in 1..Len(proj.Roles) |-> syncRole(withIDs[i], combined[i])]
                    needSync == \/ \E i \in 1..Len(proj.Roles) : synced[i].needSync
                                \/ proj.Orphans # {}
                IN proj' = [proj EXCEPT !.Roles = [i \in 1..Len(proj.Roles) |-> synced[i].role],
                                        !.Orphans = {},
                                        !.calls = @ + 1,
                                        !.before = proj.call,
                                        !.call = "NormalizeJWTTokens",
                                        !.args = NoProject.args,
                                        !.old = TokenLists(proj.Roles),
                                        !.ret = needNormalize \/ needSync,
                                        !.err = FALSE]
    /\ UNCHANGED <<initConstants, repoType, refs, storeFaulty, boot, oobRevisions, now, cache, semHeld, repoLock, st, task, started, obs, upd, co, ms, hb, sa, xr, creds>>

CallIsSourcePermitted ==
    /\ proj.pc = "IsSourcePermitted"
    /\ proj' = [proj EXCEPT !.pc = "done",
                            !.permitted = IsSourcePermitted(proj.SourceRepos, proj.RepoURL)]
    /\ UNCHANGED <<initConstants, repoType, refs, storeFaulty, boot, oobRevisions, now, cache, semHeld, repoLock, st, task, started, obs, upd, co, ms, hb, sa, xr, creds>>

----------------------------------------------------------------------------
(* Repository credentials server (server/repocreds) *)

CredentialURLs == {"u1", "u2"}
Passwords == {"", "p"}
Kinds == {"read", "write"}
Absent == [present |-> FALSE, Username |-> "", Password |-> ""]
Stored(r) == [present |-> TRUE, Username |-> r.Username, Password |-> r.Password]
NoRequestCreds == [nil |-> TRUE, URL |-> "", Username |-> "", Password |-> ""]

\* db: the read and the write credential sets by URL; last: the last call, its
\* caller and request, the store before it, its status code and its items
NoCall ==
    [op |-> "", kind |-> "", claims |-> {}, Creds |-> NoRequestCreds, Upsert |-> FALSE,
     db |-> [k \in Kinds |-> [u \in CredentialURLs |-> Absent]], code |-> "", items |-> {}]
NoCreds == [pc |-> "idle", db |-> NoCall.db, last |-> NoCall]

\* rbac.ResourceRepositories, rbac.ResourceWriteRepositories
Resource(kind) == IF kind = "read" THEN "repositories" ELSE "write-repositories"
Actions == {"get", "create", "update", "delete"}

\* the policies of the callers: a grant names a resource, an action and a URL
\* or "*" for every URL
Grants(resources, actions, urls) == [resource : resources, action : actions, url : urls]
Callers ==
    {{},
     Grants({"repositories", "write-repositories"}, Actions, {"*"}),
     Grants({"repositories", "write-repositories"}, {"get"}, {"*"}),
     Grants({"repositories", "write-repositories"}, {"get", "create"}, {"*"}),
     Grants({"repositories"}, Actions, {"*"}),
     Grants({"write-repositories"}, Actions, {"u1"})}

\* s.enf.Enforce(claims, resource, action, url)
Enforce(claims, resource, action, url) ==
    \E g \in claims : g.resource = resource /\ g.action = action /\ g.url \in {"*", url}

\* s.db.ListRepositoryCredentials: the URLs of the read credential sets
dbListRepositoryCredentials(db) == {u \in CredentialURLs : db["read"][u].present}

\* s.db.Update[Write]RepositoryCredentials
dbUpdate(db, kind, r) ==
    IF r.URL \in CredentialURLs /\ db[kind][r.URL].present
    THEN [db |-> [db EXCEPT ![kind][r.URL] = Stored(r)], code |-> "OK"]
    ELSE [db |-> db, code |-> "NotFound"]

\* the body of Update[Write]RepositoryCredentials without its RBAC check
UpdateCredentialsUnchecked(db, claims, kind, r) ==
    IF r.nil THEN [db |-> db, code |-> "InvalidArgument"]
    ELSE dbUpdate(db, kind, r)

\* lines 385-395 and 397-407
UpdateCredentials(db, claims, kind, r) ==
    IF r.nil THEN [db |-> db, code |-> "InvalidArgument"]
    ELSE IF ~Enforce(claims, Resource(kind), "update", r.URL)
    THEN [db |-> db, code |-> "PermissionDenied"]
    ELSE dbUpdate(db, kind, r)

\* Create[Write]RepositoryCredentials storing the submitted set over a
\* different one also without upsert
CreateCredentialsOverwriting(db, claims, kind, r, upsert) ==
    IF r.nil THEN [db |-> db, code |-> "InvalidArgument"]
    ELSE IF ~Enforce(claims, Resource(kind), "create", r.URL)
    THEN [db |-> db, code |-> "PermissionDenied"]
    ELSE IF r.URL = "" THEN [db |-> db, code |-> "InvalidArgument"]
    ELSE IF ~db[kind][r.URL].present
    THEN [db |-> [db EXCEPT ![kind][r.URL] = Stored(r)], code |-> "OK"]
    ELSE IF db[kind][r.URL] = Stored(r) THEN [db |-> db, code |-> "OK"]
    ELSE UpdateCredentials(db, claims, kind, r)

\* lines 315-348 and 350-383
CreateCredentials(db, claims, kind, r, upsert) ==
    IF r.nil THEN [db |-> db, code |-> "InvalidArgument"]
    ELSE IF ~Enforce(claims, Resource(kind), "create", r.URL)
    THEN [db |-> db, code |-> "PermissionDenied"]
    ELSE IF r.URL = "" THEN [db |-> db, code |-> "InvalidArgument"]
    ELSE IF ~db[kind][r.URL].present
    THEN [db |-> [db EXCEPT ![kind][r.URL] = Stored(r)], code |-> "OK"]
    ELSE IF db[kind][r.URL] = Stored(r) THEN [db |-> db, code |-> "OK"]
    ELSE IF upsert THEN UpdateCredentials(db, claims, kind, r)
    ELSE [db |-> db, code |-> "InvalidArgument"]

\* lines 409-417 and 419-427
DeleteCredentials(db, claims, kind, url) ==
    IF ~Enforce(claims, Resource(kind), "delete", url)
    THEN [db |-> db, code |-> "PermissionDenied"]
    ELSE IF url \in CredentialURLs /\ db[kind][url].present
    THEN [db |-> [db EXCEPT ![kind][url] = Absent], code |-> "OK"]
    ELSE [db |-> db, code |-> "NotFound"]

\* lines 267-289 and 291-313: the items returned, as URL and Username
ListCredentials(db, claims, kind) ==
    {[URL |-> u, Username |-> db[kind][u].Username] :
        u \in {u \in dbListRepositoryCredentials(db) :
                  /\ Enforce(claims, Resource(kind), "get", u)
                  /\ db[kind][u].present
                  /\ kind = "write" => db[kind][u].Password # ""}}

Served(op, kind, claims, r, upsert, result, items) ==
    /\ creds.pc = "serving"
    /\ creds' = [creds EXCEPT !.pc = "served",
                              !.db = result.db,
                              !.last = [op |-> op, kind |-> kind, claims |-> claims, Creds |-> r,
                                        Upsert |-> upsert, db |-> creds.db, code |-> result.code,
                                        items |-> items]]
    /\ UNCHANGED <<initConstants, repoType, refs, storeFaulty, boot, oobRevisions, now, cache, semHeld, repoLock, st, task, started, obs, upd, co, ms, hb, sa, xr, proj>>

\* the server waits for the next request
NextRequest ==
    /\ creds.pc = "served"
    /\ creds' = [creds EXCEPT !.pc = "serving", !.last = NoCall]
    /\ UNCHANGED <<initConstants, repoType, refs, storeFaulty, boot, oobRevisions, now, cache, semHeld, repoLock, st, task, started, obs, upd, co, ms, hb, sa, xr, proj>>

RequestCreds ==
    {NoRequestCreds} \cup
    [nil : {FALSE}, URL : CredentialURLs \cup {""}, Username : {"a"}, Password : Passwords]

CreateRepositoryCredentials ==
    \E claims \in Callers, r \in RequestCreds, upsert \in BOOLEAN :
        Served("Create", "read", claims, r, upsert, CreateCredentials(creds.db, claims, "read", r, upsert), {})
CreateWriteRepositoryCredentials ==
    \E claims \in Callers, r \in RequestCreds, upsert \in BOOLEAN :
        Served("Create", "write", claims, r, upsert, CreateCredentials(creds.db, claims, "write", r, upsert), {})
UpdateRepositoryCredentials ==
    \E claims \in Callers, r \in RequestCreds :
        Served("Update", "read", claims, r, FALSE, UpdateCredentials(creds.db, claims, "read", r), {})
UpdateWriteRepositoryCredentials ==
    \E claims \in Callers, r \in RequestCreds :
        Served("Update", "write", claims, r, FALSE, UpdateCredentials(creds.db, claims, "write", r), {})
DeleteRepositoryCredentials ==
    \E claims \in Callers, url \in CredentialURLs :
        Served("Delete", "read", claims, [NoRequestCreds EXCEPT !.URL = url], FALSE,
               DeleteCredentials(creds.db, claims, "read", url), {})
DeleteWriteRepositoryCredentials ==
    \E claims \in Callers, url \in CredentialURLs :
        Served("Delete", "write", claims, [NoRequestCreds EXCEPT !.URL = url], FALSE,
               DeleteCredentials(creds.db, claims, "write", url), {})
ListRepositoryCredentials ==
    \E claims \in Callers :
        Served("List", "read", claims, NoRequestCreds, FALSE, [db |-> creds.db, code |-> "OK"],
               ListCredentials(creds.db, claims, "read"))
ListWriteRepositoryCredentials ==
    \E claims \in Callers :
        Served("List", "write", claims, NoRequestCreds, FALSE, [db |-> creds.db, code |-> "OK"],
               ListCredentials(creds.db, claims, "write"))


----------------------------------------------------------------------------
(* Specifications *)

\* a new service with constants of C, a repository of T, tokens of F, trees O,
\* a cache store that may fail or not (S), at a point B of Service.Init
Service(C, T, F, O, S, B) ==
    /\ initConstants \in C
    /\ repoType \in T
    /\ refs \in F
    /\ storeFaulty \in S
    /\ boot \in B
    /\ oobRevisions \in O
    /\ now = StartTime
    /\ cache = [k \in Keys |-> NoEntry]
    /\ semHeld = 0
    /\ repoLock = IdleLock
    /\ st = [r \in Reqs |-> IdleSt]
    /\ task = [r \in Reqs |-> IdleTask]
    /\ started = 0
    /\ obs = [k \in Keys |-> StartObs]
    /\ upd = NoUpdate

\* the service, and nothing else going on
NewService(C, T, F, O, S, B) ==
    /\ Service(C, T, F, O, S, B)
    /\ co = NoCheckout
    /\ ms = NoMerge
    /\ hb = NoHelm
    /\ sa = NoDerive
    /\ xr = NoCross
    /\ proj = NoProject
    /\ creds = NoCreds

\* a started service whose cache store does not fail
InitWith(C, T, F, O) == NewService(C, T, F, O, {FALSE}, {BootDone})

\* steps of a request that are the same whatever the repository is
Step(r) ==
    \/ ResolveRevision(r)
    \/ CacheProbe(r)
    \/ CacheProbeWrite(r)
    \/ Admit(r)
    \/ AdmitCancelled(r)
    \/ CheckAcquired(r)
    \/ Operation(r)
    \/ TaskOpContext(r)
    \/ TaskRefSources(r)
    \/ TaskRender(r)
    \/ TaskPluginReply(r)
    \/ TaskFailureRead(r)
    \/ TaskFailureWrite(r)
    \/ TaskSuccessWrite(r)
    \/ ReceiveTarDone(r)
    \/ ReceiveResponse(r)
    \/ ReceiveError(r)
    \/ Return(r)

(* Spec: requests one after the other, for a git, Helm or OCI repository,     *)
(* under every configuration of the failure cache, with time passing         *)

\* the limits play no part when the failure cache is off (PauseGeneration... = 0)
SeqConstants ==
    {c \in [PauseGenerationAfterFailedGenerationAttempts : 0..2,
            PauseGenerationOnFailureForMinutes : 0..1,
            PauseGenerationOnFailureForRequests : 0..2,
            ParallelismLimit : {1},
            AllowOutOfBoundsSymlinks : {FALSE}] :
        c.PauseGenerationAfterFailedGenerationAttempts = 0 =>
            /\ c.PauseGenerationOnFailureForMinutes = 0
            /\ c.PauseGenerationOnFailureForRequests = 0}

SeqRequests ==
    [revision : {"r1"}, noCache : BOOLEAN, plugin : BOOLEAN, allowConcurrent : {TRUE},
     pathless : {FALSE}, ref : {FALSE}]

Init == InitWith(SeqConstants, RepoTypes, {"one"}, {{}, {"r1"}})

Next ==
    \/ \E q \in SeqRequests : Begin(1, q)
    \/ Step(1)
    \/ Lock(1)
    \/ Checkout(1)
    \/ Extract(1)
    \/ TaskRefSymlinks(1)
    \/ TaskDeferred(1)
    \/ Finish(1)
    \/ Tick

Spec == Init /\ [][Next]_vars

(* SpecConc: two requests in flight at once on a git repository; each slot    *)
(* serves one request                                                         *)

ConcConstants ==
    [PauseGenerationAfterFailedGenerationAttempts : 0..1,
     PauseGenerationOnFailureForMinutes : {0},
     PauseGenerationOnFailureForRequests : 0..1,
     ParallelismLimit : 1..2,
     AllowOutOfBoundsSymlinks : {FALSE}]

ConcRequests ==
    [revision : Revisions, noCache : {FALSE}, plugin : BOOLEAN, allowConcurrent : BOOLEAN,
     pathless : {FALSE}, ref : {FALSE}]

InitConc == InitWith(ConcConstants, {"git"}, {"none"}, {{}})

NextConc ==
    \E r \in Reqs :
        \/ \E q \in ConcRequests : Begin(r, q)
        \/ Step(r)
        \/ Lock(r)
        \/ LockWake(r)
        \/ Checkout(r)

SpecConc == InitConc /\ [][NextConc]_vars

(* SpecKinds: two requests in flight at once for one revision of a git, Helm   *)
(* or OCI repository or for one set of streamed files, with or without a      *)
(* referenced repository, with trees that may hold out-of-bounds symlinks     *)

KindsConstants ==
    [PauseGenerationAfterFailedGenerationAttempts : 0..1,
     PauseGenerationOnFailureForMinutes : {0},
     PauseGenerationOnFailureForRequests : {1},
     ParallelismLimit : {2},
     AllowOutOfBoundsSymlinks : BOOLEAN]

KindsRequests ==
    [revision : {"r1"}, noCache : BOOLEAN, plugin : {FALSE}, allowConcurrent : {TRUE},
     pathless : {FALSE}, ref : {FALSE}]

InitKinds == InitWith(KindsConstants, SourceKinds, {"none", "one"}, {{}, {"r1"}, {"ref"}})

NextKinds ==
    \E r \in Reqs :
        \/ \E q \in KindsRequests : Begin(r, q)
        \/ ResolveRevision(r)
        \/ CacheProbe(r)
        \/ CacheProbeWrite(r)
        \/ Admit(r)
        \/ AdmitCancelled(r)
        \/ Lock(r)
        \/ LockWake(r)
        \/ Checkout(r)
        \/ Extract(r)
        \/ CheckAcquired(r)
        \/ Operation(r)
        \/ TaskOpContext(r)
        \/ TaskRefSources(r)
        \/ TaskRefSymlinks(r)
        \/ TaskRender(r)
        \/ TaskFailureRead(r)
        \/ TaskFailureWrite(r)
        \/ TaskSuccessWrite(r)
        \/ ReceiveResponse(r)
        \/ ReceiveError(r)
        \/ TaskDeferred(r)
        \/ Return(r)

SpecKinds == InitKinds /\ [][NextKinds]_vars

\* the steps of the runManifestGenAsync goroutine of request r, up to its
\* deferred calls; a channel send is the receive of the request that selects on it
TaskStep(r) ==
    \/ TaskOpContext(r)
    \/ TaskRefSources(r)
    \/ TaskRefSymlinks(r)
    \/ TaskRender(r)
    \/ TaskFailureRead(r)
    \/ TaskFailureWrite(r)
    \/ TaskSuccessWrite(r)
    \/ ReceiveResponse(r)
    \/ ReceiveError(r)
    \/ TaskDeferred(r)

\* SpecRelease: the requests of SpecKinds, each with a referenced repository,
\* on a service that records failures and forbids out-of-bounds symlinks; every
\* started goroutine keeps running: the Go scheduler runs a goroutine that is not
\* blocked, and the renderer returns
ReleaseConstants ==
    {c \in KindsConstants : /\ c.PauseGenerationAfterFailedGenerationAttempts = 1
                            /\ ~c.AllowOutOfBoundsSymlinks}

InitRelease == InitWith(ReleaseConstants, SourceKinds, {"one"}, {{}, {"r1"}, {"ref"}})

SpecRelease == InitRelease /\ [][NextKinds]_vars /\ \A r \in Reqs : WF_vars(TaskStep(r))

(* SpecRefs: one request at a time for a git or Helm repository whose Helm     *)
(* options name "$ref" tokens of every kind                                   *)

RefsConstants ==
    [PauseGenerationAfterFailedGenerationAttempts : 0..1,
     PauseGenerationOnFailureForMinutes : {0},
     PauseGenerationOnFailureForRequests : 0..1,
     ParallelismLimit : {1},
     AllowOutOfBoundsSymlinks : BOOLEAN]

RefsRequests ==
    [revision : {"r1"}, noCache : BOOLEAN, plugin : {FALSE}, allowConcurrent : {TRUE},
     pathless : BOOLEAN, ref : BOOLEAN]

InitRefs == InitWith(RefsConstants, {"git", "helm"}, RefKinds, {{}, {"r1"}, {"ref"}})

NextRefs ==
    \/ \E q \in RefsRequests : Begin(1, q)
    \/ SkipRefOnly(1)
    \/ ResolveRevision(1)
    \/ CacheProbe(1)
    \/ CacheProbeWrite(1)
    \/ Admit(1)
    \/ AdmitCancelled(1)
    \/ Lock(1)
    \/ Checkout(1)
    \/ Extract(1)
    \/ CheckAcquired(1)
    \/ Operation(1)
    \/ TaskOpContext(1)
    \/ TaskRefSources(1)
    \/ TaskRefSymlinks(1)
    \/ TaskRender(1)
    \/ TaskFailureRead(1)
    \/ TaskFailureWrite(1)
    \/ TaskSuccessWrite(1)
    \/ ReceiveResponse(1)
    \/ ReceiveError(1)
    \/ TaskDeferred(1)
    \/ Return(1)
    \/ Finish(1)

SpecRefs == InitRefs /\ [][NextRefs]_vars

(* SpecStore: requests one after the other for a git repository on a service  *)
(* whose cache store may fail at every call                                   *)

StoreConstants == {c \in SeqConstants : c.PauseGenerationOnFailureForMinutes = 0}

StoreRequests ==
    [revision : {"r1"}, noCache : BOOLEAN, plugin : BOOLEAN, allowConcurrent : {TRUE},
     pathless : {FALSE}, ref : {FALSE}]

InitStore == NewService(StoreConstants, {"git"}, {"none"}, {{}}, {TRUE}, {BootDone})

NextStore ==
    \/ \E q \in StoreRequests : Begin(1, q)
    \/ Step(1)
    \/ Lock(1)
    \/ Checkout(1)
    \/ Finish(1)

SpecStore == InitStore /\ [][NextStore]_vars

(* SpecRelabel: requests one after the other for two revisions of a git       *)
(* repository, with or without a referenced repository, and                  *)
(* UpdateRevisionForPaths calls between them                                 *)

RelabelConstants ==
    {c \in RefsConstants :
        /\ ~c.AllowOutOfBoundsSymlinks
        /\ c.PauseGenerationOnFailureForRequests
              = c.PauseGenerationAfterFailedGenerationAttempts}

RelabelRequests ==
    [revision : Revisions, noCache : BOOLEAN, plugin : {FALSE}, allowConcurrent : {TRUE},
     pathless : {FALSE}, ref : {FALSE}]

InitRelabel == InitWith(RelabelConstants, {"git"}, {"none", "one"}, {{}})

NextRelabel ==
    \/ \E q \in RelabelRequests : Begin(1, q)
    \/ ResolveRevision(1)
    \/ CacheProbe(1)
    \/ CacheProbeWrite(1)
    \/ Admit(1)
    \/ AdmitCancelled(1)
    \/ Lock(1)
    \/ Checkout(1)
    \/ CheckAcquired(1)
    \/ Operation(1)
    \/ TaskOpContext(1)
    \/ TaskRefSources(1)
    \/ TaskRefSymlinks(1)
    \/ TaskRender(1)
    \/ TaskFailureRead(1)
    \/ TaskFailureWrite(1)
    \/ TaskSuccessWrite(1)
    \/ ReceiveResponse(1)
    \/ ReceiveError(1)
    \/ TaskDeferred(1)
    \/ Return(1)
    \/ Finish(1)
    \/ \E old, new \in Revisions, hasPaths \in BOOLEAN : UpdateRevisionForPaths(old, new, hasPaths)

SpecRelabel == InitRelabel /\ [][NextRelabel]_vars

(* SpecPromise: requests one after the other, for a git repository            *)
(* (GenerateManifest) or for streamed files (GenerateManifestWithFiles), with *)
(* every kind of "$ref" token that needs no second repository                *)

PromiseConstants ==
    {c \in SeqConstants :
        /\ c.PauseGenerationAfterFailedGenerationAttempts <= 1
        /\ c.PauseGenerationOnFailureForMinutes = 0
        /\ c.PauseGenerationOnFailureForRequests
              = c.PauseGenerationAfterFailedGenerationAttempts}

InitPromise ==
    InitWith(PromiseConstants, {"git", "streamed"}, {"none", "one", "unknown", "undeclared"}, {{}})

NextPromise ==
    \/ \E q \in SeqRequests : Begin(1, q)
    \/ Step(1)
    \/ Lock(1)
    \/ Checkout(1)
    \/ Extract(1)
    \/ TaskRefSymlinks(1)
    \/ TaskDeferred(1)
    \/ Finish(1)

SpecPromise == InitPromise /\ [][NextPromise]_vars

(* SpecBackoff: requests for one key of a git repository, two in flight at    *)
(* once and up to MaxRequests in all, with the failure cache on               *)

BackoffConstants ==
    [PauseGenerationAfterFailedGenerationAttempts : 1..2,
     PauseGenerationOnFailureForMinutes : {0},
     PauseGenerationOnFailureForRequests : 1..2,
     ParallelismLimit : {2},
     AllowOutOfBoundsSymlinks : {FALSE}]

BackoffRequests ==
    [revision : {"r1"}, noCache : {FALSE}, plugin : {FALSE}, allowConcurrent : {TRUE},
     pathless : {FALSE}, ref : {FALSE}]

InitBackoff == InitWith(BackoffConstants, {"git"}, {"none"}, {{}})

NextBackoff ==
    \E r \in Reqs :
        \/ \E q \in BackoffRequests : Begin(r, q)
        \/ ResolveRevision(r)
        \/ CacheProbe(r)
        \/ CacheProbeWrite(r)
        \/ Admit(r)
        \/ AdmitCancelled(r)
        \/ Lock(r)
        \/ LockWake(r)
        \/ Checkout(r)
        \/ CheckAcquired(r)
        \/ Operation(r)
        \/ TaskOpContext(r)
        \/ TaskRefSources(r)
        \/ TaskRender(r)
        \/ TaskFailureRead(r)
        \/ TaskFailureWrite(r)
        \/ TaskSuccessWrite(r)
        \/ ReceiveResponse(r)
        \/ ReceiveError(r)
        \/ Return(r)
        \/ Finish(r)

SpecBackoff == InitBackoff /\ [][NextBackoff]_vars

(* SpecCheckout: checkoutRevision on every git client                          *)

InitCheckout ==
    /\ Service({c \in SeqConstants : c.PauseGenerationAfterFailedGenerationAttempts = 0},
               {"git"}, {"none"}, {{}}, {FALSE}, {BootDone})
    /\ ms = NoMerge
    /\ hb = NoHelm
    /\ sa = NoDerive
    /\ xr = NoCross
    /\ proj = NoProject
    /\ creds = NoCreds
    /\ co \in {[NoCheckout EXCEPT !.pc = "call", !.gitClient = g, !.revision = r] :
                  g \in GitClients, r \in Revisions}

SpecCheckout == InitCheckout /\ [][CheckoutRevision]_vars

(* SpecMerge: mergeSourceParameters on a chart source or a directory source,  *)
(* with and without an application name, on every pair of override files     *)

MergeSources ==
    [RepoURL : {"repo"}, Path : {"", "path"}, Chart : {"", "chart"},
     TargetRevision : {"rev"}, Helm : {"", "values"}]

InitMerge ==
    /\ Service({c \in SeqConstants : c.PauseGenerationAfterFailedGenerationAttempts = 0},
               {"git"}, {"none"}, {{}}, {FALSE}, {BootDone})
    /\ co = NoCheckout
    /\ hb = NoHelm
    /\ sa = NoDerive
    /\ xr = NoCross
    /\ proj = NoProject
    /\ creds = NoCreds
    /\ ms \in {[NoMerge EXCEPT !.pc = "call", !.source = s, !.before = s, !.appName = a,
                                !.files = <<f, g>>] :
                  s \in MergeSources, a \in {"", "app"}, f \in OverrideFiles, g \in OverrideFiles}

SpecMerge == InitMerge /\ [][MergeSourceParameters]_vars

(* SpecHelm: MaxRenderers concurrent helmTemplate calls on one application     *)
(* path whose dependencies were built before or not                          *)

InitHelm ==
    /\ Service({c \in SeqConstants : c.PauseGenerationAfterFailedGenerationAttempts = 0},
               {"git"}, {"none"}, {{}}, {FALSE}, {BootDone})
    /\ co = NoCheckout
    /\ ms = NoMerge
    /\ sa = NoDerive
    /\ xr = NoCross
    /\ proj = NoProject
    /\ creds = NoCreds
    /\ \E m \in BOOLEAN :
          hb = [NoHelm EXCEPT !.marker = m,
                              !.call = [r \in Renderers |-> [NoTemplate EXCEPT !.pc = "template"]]]

NextHelm ==
    \E r \in Renderers :
        \/ HelmTemplate(r)
        \/ RunHelmBuildLock(r)
        \/ RunHelmBuildStat(r)
        \/ RunHelmBuildDependencyBuild(r)
        \/ RunHelmBuildMark(r)

SpecHelm == InitHelm /\ [][NextHelm]_vars

(* SpecDerive: deriveServiceAccountToImpersonate on every project of up to     *)
(* MaxAccounts destination service accounts                                  *)

InitDerive ==
    /\ Service({c \in SeqConstants : c.PauseGenerationAfterFailedGenerationAttempts = 0},
               {"git"}, {"none"}, {{}}, {FALSE}, {BootDone})
    /\ co = NoCheckout
    /\ ms = NoMerge
    /\ hb = NoHelm
    /\ xr = NoCross
    /\ proj = NoProject
    /\ creds = NoCreds
    /\ \E k \in 0..MaxAccounts, d \in DestinationNamespaces, s \in ClusterServers :
          \E a \in [1..k -> ApplicationDestinationServiceAccounts] :
              sa = [NoDerive EXCEPT !.pc = "call", !.accounts = a, !.destination = d,
                                    !.server = s]

SpecDerive == InitDerive /\ [][DeriveServiceAccountToImpersonate]_vars

(* SpecCross: two concurrent requests, each for a source in one of two         *)
(* repositories with a "$ref" value file in the other; every checkout and    *)
(* render ends                                                               *)

InitCross ==
    /\ Service({c \in SeqConstants : c.PauseGenerationAfterFailedGenerationAttempts = 0},
               {"git"}, {"one"}, {{}}, {FALSE}, {BootDone})
    /\ co = NoCheckout
    /\ ms = NoMerge
    /\ hb = NoHelm
    /\ sa = NoDerive
    /\ proj = NoProject
    /\ creds = NoCreds
    /\ \E q \in [Reqs -> [pc : {"acquire"}, tpc : {"none"}, tree : Trees,
                          revision : Revisions, refRevision : Revisions]] :
          xr = [NoCross EXCEPT !.req = q]

NextCross ==
    \E r \in Reqs :
        \/ CrossLock(r)
        \/ CrossOperation(r)
        \/ CrossRefLock(r)
        \/ CrossRender(r)
        \/ CrossReceive(r)
        \/ CrossReturn(r)
        \/ CrossDeferred(r)

SpecCross == InitCross /\ [][NextCross]_vars

(* SpecSource: IsSourcePermitted on every project of up to MaxSourceRepos      *)
(* source repository entries and every source URL                            *)

InitSource ==
    /\ Service({c \in SeqConstants : c.PauseGenerationAfterFailedGenerationAttempts = 0},
               {"git"}, {"none"}, {{}}, {FALSE}, {BootDone})
    /\ co = NoCheckout
    /\ ms = NoMerge
    /\ hb = NoHelm
    /\ sa = NoDerive
    /\ xr = NoCross
    /\ creds = NoCreds
    /\ \E k \in 0..MaxSourceRepos, u \in SourceURLs :
          \E repos \in [1..k -> SourceRepoEntries] :
              proj = [NoProject EXCEPT !.pc = "IsSourcePermitted", !.SourceRepos = repos,
                                      !.RepoURL = u]

SpecSource == InitSource /\ [][CallIsSourcePermitted]_vars

(* SpecTokens: up to MaxCalls calls of RemoveJWTToken and NormalizeJWTTokens   *)
(* on a decoded project: role "admin" with any token list of up to MaxTokens  *)
(* tokens in spec and a shorter one in status, optionally a role "dev" and a *)
(* status entry of a role "gone" that the spec no longer has                 *)

DecodedLists(longest) ==
    {l \in UNION {[1..n -> JWTToken] : n \in 0..longest} :
        \A i, j \in 1..Len(l) : i < j => l[i] # l[j] /\ (l[i].ID = l[j].ID => l[i].ID = "")}
DevRoles ==
    {DecodedRole("dev", <<>>, items, specNil, items = <<>>) :
        items \in {<<>>, <<[ID |-> "x", IssuedAt |-> 1]>>}, specNil \in BOOLEAN}
GoneEntries == {{}, {[name |-> "gone", Items |-> <<[ID |-> "", IssuedAt |-> 2]>>]}}
RemoveArguments ==
    [roleIndex : {1, 2}, issuedAt : {-1} \cup IssueTimes, id : {"", "x", FormatInt(1)}]

InitTokens ==
    /\ Service({c \in SeqConstants : c.PauseGenerationAfterFailedGenerationAttempts = 0},
               {"git"}, {"none"}, {{}}, {FALSE}, {BootDone})
    /\ co = NoCheckout
    /\ ms = NoMerge
    /\ hb = NoHelm
    /\ sa = NoDerive
    /\ xr = NoCross
    /\ creds = NoCreds
    /\ \E inSpec \in DecodedLists(MaxTokens), inStatus \in DecodedLists(MaxTokens - 1), specNil \in BOOLEAN :
          \E others \in {<<>>} \cup {<<dev>> : dev \in DevRoles}, gone \in GoneEntries :
              /\ specNil => inSpec = <<>>
              /\ proj = [NoProject EXCEPT
                             !.pc = "tokens",
                             !.Roles = <<DecodedRole("admin", inSpec, inStatus, specNil, inStatus = <<>>)>> \o others,
                             !.Orphans = gone]

NextTokens ==
    \/ NormalizeJWTTokens
    \/ \E a \in RemoveArguments :
          a.roleIndex <= Len(proj.Roles) /\ RemoveJWTToken(a.roleIndex, a.issuedAt, a.id)

SpecTokens == InitTokens /\ [][NextTokens]_vars

(* SpecCreds: the repository credentials server called by callers of several *)
(* policies on every store of read and write credential sets                 *)

InitCreds ==
    /\ Service({c \in SeqConstants : c.PauseGenerationAfterFailedGenerationAttempts = 0},
               {"git"}, {"none"}, {{}}, {FALSE}, {BootDone})
    /\ co = NoCheckout
    /\ ms = NoMerge
    /\ hb = NoHelm
    /\ sa = NoDerive
    /\ xr = NoCross
    /\ proj = NoProject
    /\ \E db \in [Kinds -> [CredentialURLs ->
                      {Absent} \cup {Stored([Username |-> "a", Password |-> p]) : p \in Passwords}]] :
          creds = [NoCreds EXCEPT !.pc = "serving", !.db = db]

NextCreds ==
    \/ CreateRepositoryCredentials
    \/ CreateWriteRepositoryCredentials
    \/ UpdateRepositoryCredentials
    \/ UpdateWriteRepositoryCredentials
    \/ DeleteRepositoryCredentials
    \/ DeleteWriteRepositoryCredentials
    \/ ListRepositoryCredentials
    \/ ListWriteRepositoryCredentials
    \/ NextRequest

SpecCreds == InitCreds /\ [][NextCreds]_vars

(* SpecInit: Service.Init on a root directory that is missing or was left by  *)
(* an earlier start, with up to MaxEntries entries                            *)

SeqsUpTo(S, n) == UNION {[1..k -> S] : k \in 0..n}

\* the root directory before Init: missing, or holding files, directories and
\* cloned repositories in the mode an earlier Init left it in
BootStarts ==
    {[BootDone EXCEPT !.pc = "stat", !.exists = FALSE, !.mode = ""]}
    \cup {[BootDone EXCEPT !.pc = "stat", !.mode = m, !.entries = e] :
              m \in {"0300", "0700"}, e \in SeqsUpTo(DirEntryKinds, MaxEntries)}

InitBoot ==
    NewService({c \in SeqConstants : c.PauseGenerationAfterFailedGenerationAttempts = 0},
               {"git"}, {"none"}, {{}}, {FALSE}, BootStarts)

NextBoot == InitStat \/ InitChmod \/ InitReadDir \/ InitScan \/ InitRestore

SpecInit == InitBoot /\ [][NextBoot]_vars

----------------------------------------------------------------------------
(* Properties *)

PauseAfter == initConstants.PauseGenerationAfterFailedGenerationAttempts
PauseMinutes == initConstants.PauseGenerationOnFailureForMinutes
PauseRequests == initConstants.PauseGenerationOnFailureForRequests

ZeroFailureFields(e) ==
    /\ e.FirstFailureTimestamp = 0
    /\ e.NumberOfConsecutiveFailures = 0
    /\ e.NumberOfCachedResponsesReturned = 0
    /\ e.MostRecentError = ""

SuccessForm(e) == e.ManifestResponse # NoResponse /\ ZeroFailureFields(e)
FailureForm(e) ==
    /\ e.ManifestResponse = NoResponse
    /\ e.FirstFailureTimestamp > 0
    /\ e.NumberOfConsecutiveFailures >= 1

\* C1: sequential requests for one key from the empty cache, N = pauseAfterFailures
\* > 0, M = pauseRequests > 0, the pause minutes not elapsed: after N failed
\* renders (noCache = false) each of requests N+1 .. N+M returns the error
\* "Manifest generation error (cached)" carrying the message of the most recent
\* failure and does not invoke the renderer; request N+M+1 is not served the
\* cached error and invokes the renderer.
C1_BackoffSequential ==
    \A k \in Keys :
        LET o == obs[k] IN
        (o.on /\ PauseAfter > 0 /\ PauseRequests > 0) =>
            /\ (PauseAfter < o.n /\ o.n <= PauseAfter + PauseRequests) =>
                  (o.last.cached /\ o.last.msg = o.msg /\ ~o.last.rendered)
            /\ o.n = PauseAfter + PauseRequests + 1 =>
                  (~o.last.cached /\ o.last.rendered)
            /\ o.n <= PauseAfter + PauseRequests + 1

\* the (M+1)-th request after N failed renders has returned
C1_Witness ==
    \E k \in Keys :
        /\ obs[k].on /\ PauseAfter > 0 /\ PauseRequests > 0
        /\ obs[k].n = PauseAfter + PauseRequests + 1
        /\ obs[k].last.rendered

\* what a probe that read the paused record e at time t must decide
ProbeDecides(r, exit) ==
    LET s == st[r] IN
    /\ exit => /\ s.verdict = "reset"
               /\ s.pc \in {"probe1w", "probe2w"} => s.pend.op = "delete"
               /\ s.pc \notin {"probe1w", "probe2w"} => ~cache[Key(s.q)].present \/ s.rendered
    /\ ~exit => /\ s.verdict = "cached"
                /\ ~s.rendered
                /\ s.pc \in {"return", "done"} => s.err = CachedErr(s.probed.MostRecentError)

PausedRecord(e) ==
    /\ PauseAfter > 0
    /\ e.present
    /\ e.FirstFailureTimestamp > 0
    /\ e.NumberOfConsecutiveFailures >= PauseAfter

\* the last probe of request r read a paused record
ProbedPaused(r) == st[r].verdict # "" /\ PausedRecord(st[r].probed)

ElapsedAtProbe(r) == (st[r].probedAt - st[r].probed.FirstFailureTimestamp) \div SecondsPerMinute

\* C2 (amended): a probe that reads a failure record with consecutiveFailures >=
\* pauseAfterFailures deletes the entry and lets the request go on to a render
\* exactly when pauseMinutes > 0 and elapsedMinutes >= pauseMinutes, or
\* pauseRequests > 0 and cachedResponseCount >= pauseRequests; otherwise it
\* returns the cached error. A limit configured as 0 never ends the pause.
C2_PauseExit ==
    \A r \in Reqs :
        ProbedPaused(r) =>
            ProbeDecides(r, \/ PauseMinutes > 0 /\ ElapsedAtProbe(r) >= PauseMinutes
                            \/ /\ PauseRequests > 0
                               /\ st[r].probed.NumberOfCachedResponsesReturned >= PauseRequests)

\* C2 as claimed: the exit condition is elapsedMinutes >= pauseMinutes or
\* cachedResponseCount >= pauseRequests for every configured value, 0 included
C2_PauseExitEveryValue ==
    \A r \in Reqs :
        ProbedPaused(r) =>
            ProbeDecides(r, \/ ElapsedAtProbe(r) >= PauseMinutes
                            \/ st[r].probed.NumberOfCachedResponsesReturned >= PauseRequests)

\* with pauseMinutes = 0 a request was served the cached error by a probe that
\* read a paused record with fewer than pauseRequests cached responses
C2_Witness ==
    \E r \in Reqs :
        /\ ProbedPaused(r)
        /\ st[r].pc = "done"
        /\ st[r].verdict = "cached"
        /\ PauseMinutes = 0 /\ PauseRequests = 2
        /\ st[r].probed.NumberOfCachedResponsesReturned = 1

\* C3: a successful render leaves at the request's key an entry with the rendered
\* manifests and consecutiveFailures = cachedResponseCount = firstFailureAt = 0,
\* mostRecentError = "", whatever was stored before; and a probe (noCache =
\* false) that reads such an entry is a hit that returns its manifests without
\* a render.
C3_SuccessResets ==
    \A r \in Reqs :
        /\ task[r].pc = "sendresp" =>
              LET e == cache[Key(st[r].q)] IN
              /\ e.present
              /\ e.ManifestResponse = task[r].out
              /\ task[r].out # NoResponse
              /\ ZeroFailureFields(e)
        /\ (st[r].verdict # "" /\ st[r].probed.present /\ ZeroFailureFields(st[r].probed)) =>
              /\ st[r].verdict = "hit"
              /\ st[r].res = st[r].probed.ManifestResponse
              /\ ~st[r].rendered
              /\ st[r].err = NoErr

\* a success entry has just been written over a failure record
C3_Witness ==
    \E r \in Reqs :
        /\ task[r].pc = "sendresp"
        /\ st[r].prior.present
        /\ st[r].prior.FirstFailureTimestamp > 0
        /\ st[r].prior.NumberOfConsecutiveFailures >= 1

\* the step by which the goroutine of r finishes handling a failed render
RenderFailureHandled(r) ==
    /\ task[r].pc \in {"render", "plugin", "failset"}
    /\ task'[r].pc = "senderr"
    /\ task'[r].err.type = "render"

\* C4: one request at a time: when pauseAfterFailures > 0 a failed render leaves
\* at the key a record with consecutiveFailures one greater than before (1 when
\* no entry existed), firstFailureAt = the current time if it was unset and
\* unchanged otherwise, and mostRecentError = the failure's message; when
\* pauseAfterFailures = 0 it leaves the cache as it was.
C4_FailureRecordUpdate ==
    [][\A r \in Reqs :
          RenderFailureHandled(r) =>
              LET k == Key(st[r].q)
                  before == cache[k]
                  after == cache'[k]
              IN IF PauseAfter > 0
                 THEN /\ after.present
                      /\ after.NumberOfConsecutiveFailures
                            = before.NumberOfConsecutiveFailures + 1
                      /\ after.FirstFailureTimestamp
                            = IF before.FirstFailureTimestamp = 0 THEN now
                              ELSE before.FirstFailureTimestamp
                      /\ after.MostRecentError = task'[r].err.msg
                      /\ \A o \in Keys \ {k} : cache'[o] = cache[o]
                 ELSE cache' = cache]_vars

\* a second consecutive failure has been recorded later than the first
C4_Witness ==
    \E r \in Reqs :
        /\ task[r].pc = "senderr"
        /\ task[r].err.type = "render"
        /\ cache[Key(st[r].q)].NumberOfConsecutiveFailures = 2
        /\ cache[Key(st[r].q)].FirstFailureTimestamp < st[r].failedAt

\* C5 as claimed: every request to which the cached generation error is returned
\* increases the stored cachedResponseCount of its key by exactly one, whichever
\* probe served it.
C5_ServedErrorCounted ==
    [][\A r \in Reqs :
          (st[r].err.type # cachedManifestGenerationPrefix
              /\ st'[r].err.type = cachedManifestGenerationPrefix) =>
              cache'[Key(st[r].q)].NumberOfCachedResponsesReturned
                  = cache[Key(st[r].q)].NumberOfCachedResponsesReturned + 1]_vars

\* C6 as claimed: every stored entry is a success (manifests, failure fields
\* zero/empty) or a failure record (no manifests, firstFailureAt > 0,
\* consecutiveFailures >= 1).
C6_EntryOneForm ==
    \A k \in Keys : cache[k].present => SuccessForm(cache[k]) \/ FailureForm(cache[k])

\* errors of signature verification / app path (opContextSrc) and of the render
RecordedErrors == {"opcontext", "render"}

\* the key under which a failure of request r is recorded: the request's key
\* for a failed render, the key without referenced commits for a failure of
\* signature verification or of the application path
RecordKey(r) ==
    IF st[r].err.type = "render" THEN Key(st[r].q) ELSE ManifestKey(st[r].q.revision, "")

C8_LockReleasedBeforeWait ==
    /\ \A r \in Reqs : st[r].pc = "select2" => ~st[r].lock
    /\ repoLock.processCount = Cardinality({r \in Reqs : st[r].lock})

\* request 2 checks out another revision while request 1 awaits the plugin
C8_Witness ==
    /\ st[1].pc = "select2" /\ task[1].pc = "plugin"
    /\ st[2].pc = "checkout" /\ repoLock.checkingOut = 2
    /\ st[2].q.revision # st[1].q.revision

\* a render is in progress from admission until its result or error is produced
RenderInProgress(r) ==
    st[r].sem \/ task[r].pc \in {"ctx", "refs", "refsym", "render", "sendtar", "plugin"}

\* C9 as claimed: with parallelismLimit = L > 0 at most L renders are in progress,
\* a plugin's render included; a request cancelled while blocked holds no slot.
C9_BoundedRenders ==
    initConstants.ParallelismLimit > 0 =>
        /\ Cardinality({r \in Reqs : RenderInProgress(r)}) <= initConstants.ParallelismLimit
        /\ \A r \in Reqs : st[r].err.type = "cancelled" => ~st[r].sem

\* all requests of the behaviour are identical, overlapped in time, were admitted
\* with parallelismLimit >= their number, and returned manifests
IdenticalConcurrentDone ==
    /\ initConstants.ParallelismLimit >= Cardinality(Reqs)
    /\ \A r \in Reqs : st[r].pc = "done" /\ st[r].err = NoErr /\ st[r].q = st[1].q
    /\ \E r \in Reqs : st[r].concurrent

Checkouts == Cardinality({r \in Reqs : st[r].checkedOut})
Renders == Cardinality({r \in Reqs : st[r].rendered})

\* C10 (amended): N concurrent identical requests on an empty cache and a fresh
\* tree, parallelismLimit >= N: at least one and at most N checkouts and at
\* least one and at most N renders occur, and every request receives manifests
\* rendered from the requested revision by one of these renders.
C10_IdenticalRequests ==
    IdenticalConcurrentDone =>
        /\ Checkouts >= 1 /\ Checkouts <= Cardinality(Reqs)
        /\ Renders >= 1 /\ Renders <= Cardinality(Reqs)
        /\ \A r \in Reqs :
              /\ st[r].res.revision = st[r].q.revision
              /\ \E o \in Reqs : st[o].rendered /\ st[r].res.gen = st[o].id

\* C10 as claimed: exactly one checkout and exactly one render
C10_ExactlyOne ==
    IdenticalConcurrentDone => Checkouts = 1 /\ Renders = 1

\* two identical concurrent requests both rendered
C10_Witness ==
    IdenticalConcurrentDone /\ Renders = 2

\* a repository's request that has double-checked read a success entry there
DoubleCheckReadSuccess(r) ==
    st[r].doubleChecked /\ st[r].probed.present /\ ZeroFailureFields(st[r].probed)

\* C11 (amended): a request with noCache = false for a git repository whose first
\* probe missed probes the cache a second time after the lock is acquired and
\* before the render operation starts; a success entry read there is returned
\* and the renderer is not invoked. A request for a Helm chart or an OCI archive
\* is never probed a second time.
C11_DoubleCheck ==
    \A r \in Reqs :
        /\ (repoType = "git" /\ st[r].rendered /\ ~st[r].q.noCache) => st[r].doubleChecked
        /\ DoubleCheckReadSuccess(r) =>
              /\ st[r].verdict = "hit"
              /\ st[r].res = st[r].probed.ManifestResponse
              /\ ~st[r].rendered
              /\ st[r].pc \in {"return", "done"}
        /\ st[r].pc = "probe2" => (st[r].lock /\ ~st[r].rendered)
        /\ repoType # "git" => ~st[r].doubleChecked

\* C11 as claimed: for every source kind a request with noCache = false is probed
\* a second time before it renders
C11_DoubleCheckEveryKind ==
    \A r \in Reqs : (st[r].rendered /\ ~st[r].q.noCache) => st[r].doubleChecked

\* a request's first probe missed and its double-check returned the entry
\* another request wrote in the meantime
C11_Witness ==
    \E r \in Reqs :
        /\ DoubleCheckReadSuccess(r)
        /\ st[r].pc = "done"
        /\ st[r].res.gen # st[r].id /\ st[r].res # NoResponse

\* the request is for a source of several in a git repository that declares a
\* ref and has no path: it has nothing to render and no Helm options are read
DeclaresOnlyRef(q) == q.ref /\ q.pathless /\ repoType = "git"

\* the request in slot r returned manifests
ReturnedManifests(r) == st[r].pc = "done" /\ st[r].res.gen # 0

\* errors that end a request before the loop over the "$ref" tokens is through
\* with the first token; the cached error is that of a recorded failure of the
\* operation context
EarlierErrors ==
    AcquisitionErrors \cup {"resolve", "opcontext", "refsource", cachedManifestGenerationPrefix}

C13_ConflictNeverAcquires ==
    \A r \in Reqs : refs = "conflict" => ~st[r].refAcquired /\ ~task[r].refLock

\* C14: a request with a token for the primary source's repository that resolves
\* to another commit never locks or checks out the referenced tree, never
\* renders, and when no earlier step fails and the source has a path or chart it
\* fails with the inconsistent-primary-reference error
C14_PrimaryReference ==
    \A r \in Reqs :
        refs = "primary" =>
            /\ ~st[r].refAcquired /\ ~task[r].refLock
            /\ ~st[r].generated
            /\ st[r].pc = "done" =>
                  /\ ~ReturnedManifests(r)
                  /\ st[r].err.type \in EarlierErrors \cup {"refprimary", ""}
                  /\ st[r].err = NoErr =>
                        (st[r].q.pathless /\ st[r].res = Response(st[r].q.revision, 0))
                  /\ (st[r].rendered /\ st[r].err.type \notin EarlierErrors)
                        => st[r].err.type = "refprimary"

\* a request with a reference to another commit of the primary source's
\* repository has failed with the inconsistent-primary-reference error
C14_Witness ==
    \E r \in Reqs :
        /\ refs = "primary" /\ st[r].pc = "done"
        /\ st[r].err.type = "refprimary"
        /\ ~st[r].refAcquired

\* C14 as claimed: the request that gets past the acquisition of its primary
\* source and the resolution of the reference fails with the
\* inconsistent-primary-reference error
C14_PrimaryAlwaysFails ==
    \A r \in Reqs :
        (refs = "primary" /\ st[r].pc = "done" /\ ~DeclaresOnlyRef(st[r].q)
           /\ st[r].err.type \notin EarlierErrors)
        => st[r].err.type = "refprimary"

\* the request in slot r has probed the cache, taken a slot, a lock or an
\* extraction, or started the render operation
TookAnything(r) ==
    \/ st[r].verdict # "" \/ st[r].pc \in {"probe1", "probe1w", "admit", "acquire"}
    \/ st[r].sem \/ st[r].lock \/ st[r].extracted \/ st[r].checkedOut
    \/ st[r].rendered \/ st[r].refAcquired \/ task[r] # IdleTask

EscapingSymlink(tree) == ~initConstants.AllowOutOfBoundsSymlinks /\ tree \in oobRevisions

\* errors that end a request before its tree is acquired
BeforeAcquired == {"resolve", "cancelled", "checkout", "extract"}

\* C16: unless AllowOutOfBoundsSymlinks, a request whose tree (checkout, chart,
\* archive or streamed files) holds an out-of-bounds symlink never starts the
\* render operation and returns no manifests; once the tree is acquired it
\* returns the out-of-bounds-symlink error with lock, extraction and slot
\* released. A request whose referenced repository holds one never runs the
\* renderer, returns no manifests, and fails with that error once the referenced
\* repository is locked; the lock is then held only until the task's deferred
\* Close.
C16_SymlinkSafety ==
    \A r \in Reqs :
        /\ EscapingSymlink(st[r].q.revision) /\ st[r].pc # "idle" =>
              /\ ~st[r].rendered /\ ~st[r].generated /\ task[r].pc = "none"
              /\ st[r].res = NoResponse
              /\ st[r].pc = "done" =>
                    /\ st[r].err.type \in BeforeAcquired \cup {"symlink"}
                    /\ ~st[r].lock /\ ~st[r].extracted /\ ~st[r].sem
              /\ st[r].err.type = "symlink" => st[r].pc \in {"return", "done"}
        /\ EscapingSymlink("ref") /\ refs # "none" =>
              /\ ~st[r].generated
              /\ st[r].res = NoResponse
              /\ (st[r].refAcquired /\ st[r].pc = "done") =>
                    /\ st[r].err.type = "symlink"
                    /\ ~st[r].lock /\ ~st[r].extracted /\ ~st[r].sem
                    /\ task[r].refLock => task[r].pc = "defer"
              /\ (st[r].refAcquired /\ task[r].pc = "none") => st[r].err.type = "symlink"

\* a request whose acquired tree holds an out-of-bounds symlink has returned the
\* error
C16_Witness ==
    \E r \in Reqs :
        /\ EscapingSymlink(st[r].q.revision)
        /\ st[r].pc = "done" /\ st[r].err.type = "symlink"
        /\ repoType = "streamed"

\* a request whose referenced repository holds an out-of-bounds symlink has
\* returned the error and the task has released the repository
C16_WitnessReferenced ==
    \E r \in Reqs :
        /\ EscapingSymlink("ref") /\ st[r].refAcquired
        /\ st[r].pc = "done" /\ st[r].err.type = "symlink"
        /\ task[r].pc = "none"

\* the requests that hold the working tree
Holders == {r \in Reqs : st[r].lock}

\* C17: every request that holds the working tree sees the revision it asked
\* for; no checkout runs while the tree is held; at most one checkout runs at a
\* time; the lock counts its holders, and two requests hold it together only if
\* both allow concurrent processing
C17_TreeExclusive ==
    /\ \A r \in Holders : repoLock.revision = st[r].q.revision
    /\ repoLock.processCount = Cardinality(Holders)
    /\ Cardinality({r \in Reqs : st[r].pc = "checkout"}) <= 1
    /\ \A r \in Reqs : st[r].pc = "checkout" <=> repoLock.checkingOut = r
    /\ repoLock.checkingOut # 0 => Holders = {} /\ repoLock.revision = ""
    /\ Cardinality(Holders) > 1 => \A r \in Holders : st[r].q.allowConcurrent
    /\ Holders = {} => repoLock.revision = ""

\* a request waits for the tree while another holds it at another revision
C17_Witness ==
    \E r, o \in Reqs :
        /\ st[r].lock /\ st[r].checkedOut
        /\ st[o].pc = "lockwait"
        /\ st[o].q.revision # st[r].q.revision
        /\ st[o].q.allowConcurrent /\ st[r].q.allowConcurrent

\* what request r holds: slot, working-tree lock handle, extraction
Holds(r) == <<st[r].sem, st[r].lock, st[r].extracted>>

\* no request that has returned from runRepoOperation holds a slot, a lock handle
\* or an extraction; the semaphore and the lock count exactly the requests that
\* hold them; a goroutine that has ended holds no referenced repository
ReleasedOnReturn ==
    /\ \A r \in Reqs :
          /\ st[r].pc \in {"idle", "select2", "done"} => Holds(r) = <<FALSE, FALSE, FALSE>>
          /\ task[r].pc = "none" => ~task[r].refLock
          /\ st[r].sem => initConstants.ParallelismLimit > 0
    /\ semHeld = Cardinality({r \in Reqs : st[r].sem})
    /\ repoLock.processCount = Cardinality(Holders)

\* a slot, lock handle or extraction is given up only by the return of
\* runRepoOperation, all of the request's at once, and the semaphore and the
\* lock go down by exactly one
ReleasedOnce ==
    \A r \in Reqs :
        (Holds(r) # <<FALSE, FALSE, FALSE>> /\ st'[r].pc # st[r].pc /\ st[r].pc = "return") =>
            /\ Holds(r)' = <<FALSE, FALSE, FALSE>>
            /\ semHeld' = semHeld - (IF st[r].sem THEN 1 ELSE 0)
            /\ repoLock'.processCount = repoLock.processCount - (IF st[r].lock THEN 1 ELSE 0)

\* what a request holds it keeps until the return of runRepoOperation
HeldUntilReturn ==
    \A r \in Reqs :
        st[r].pc # "return" =>
            /\ st[r].sem => st'[r].sem
            /\ st[r].lock => st'[r].lock
            /\ st[r].extracted => st'[r].extracted

\* without a plugin: on every exit path the slot, the primary lock handle and
\* the extraction of a request are released exactly once, by the return of
\* runRepoOperation and so before the request returns; every lock of a
\* referenced repository taken by the goroutine is eventually released
ReleasedWithoutPlugin ==
    /\ []ReleasedOnReturn
    /\ [][ReleasedOnce /\ HeldUntilReturn]_vars
    /\ \A r \in Reqs : task[r].refLock ~> ~task[r].refLock

\* the goroutine of request r waits to send its response or error, and
\* GenerateManifest has returned: nothing will receive, its deferred calls never run
SendsToNobody(r) ==
    /\ task[r].pc \in {"sendresp", "senderr"}
    /\ st[r].pc \in {"done", "idle"}

C19_RootMode ==
    /\ (boot.pc = "done" /\ boot.exists) => boot.mode = "0300"
    /\ boot.mode = "0700" => boot.pc \in {"stat", "chmod", "readdir", "scan"}

\* C20: a probe whose read of the store fails goes on as after a miss: the
\* request renders unless its acquisition fails. A render whose success entry
\* the store refuses still returns its response without error. A failed render
\* whose failure record the store fails to read or to write returns the store's
\* error, and a request returns the store's error in no other case.
C20_StoreFailurePolicy ==
    \A r \in Reqs :
        LET s == st[r] IN
        /\ s.verdict = "storeerr" =>
              /\ s.probed = NoEntry
              /\ s.pc \notin {"probe1w", "probe2w"}
              /\ s.pc = "done" => s.rendered \/ s.err.type \in AcquisitionErrors
        /\ ("okset" \in s.storeErrs /\ s.pc = "done") =>
              /\ s.err = NoErr
              /\ s.res = Response(s.q.revision, s.id)
        /\ (s.storeErrs \cap {"failget", "failset"} # {} /\ s.pc = "done") =>
              /\ s.err.type = "store"
              /\ s.failedAt = 0
        /\ s.err.type = "store" => s.storeErrs \cap {"failget", "failset"} # {}

\* the same for the requests that received what their goroutine sent
StorePolicyWhenReceived ==
    \A r \in Reqs :
        LET s == st[r] IN
        (s.pc = "done" /\ task[r].pc \in {"none", "defer"}) =>
            /\ s.verdict = "storeerr" => s.rendered \/ s.err.type \in AcquisitionErrors
            /\ "okset" \in s.storeErrs =>
                  s.err = NoErr /\ s.res = Response(s.q.revision, s.id)
            /\ s.storeErrs \cap {"failget", "failset"} # {} => s.err.type = "store"
            /\ s.err.type = "store" => s.storeErrs \cap {"failget", "failset"} # {}

\* a request whose first probe failed on the store has rendered and returned its
\* response although the store refused the success entry
C20_Witness ==
    \E r \in Reqs :
        /\ st[r].pc = "done"
        /\ {"probe", "okset"} \subseteq st[r].storeErrs
        /\ st[r].res = Response(st[r].q.revision, st[r].id)
        /\ ~cache[Key(st[r].q)].present

\* a failed render has returned the store's error of the failure record's write
C20_WitnessFailureRecord ==
    \E r \in Reqs :
        /\ st[r].pc = "done"
        /\ "failset" \in st[r].storeErrs
        /\ st[r].err = Err("store", "set")

\* the first probe of the request in slot r read a success entry
HitSuccessEntry(r) ==
    /\ ~st[r].q.noCache
    /\ st[r].verdict = "hit" /\ ~st[r].doubleChecked
    /\ st[r].probed.present /\ st[r].probed.FirstFailureTimestamp = 0

\* C21 (amended): a request with noCache = false whose revision and referenced
\* revisions resolve and whose key holds a success entry returns the manifests
\* of that entry without error; it starts no render and takes no slot, lock or
\* extraction. The resolvers have run before the probe.
C21_CacheHit ==
    \A r \in Reqs :
        HitSuccessEntry(r) =>
            /\ st[r].pc \in {"return", "done"}
            /\ st[r].res = st[r].probed.ManifestResponse /\ st[r].res.gen # 0
            /\ st[r].err = NoErr
            /\ ~st[r].rendered /\ ~st[r].generated /\ task[r] = IdleTask
            /\ ~st[r].sem /\ ~st[r].lock /\ ~st[r].extracted /\ ~st[r].checkedOut
            /\ "revision" \in st[r].resolved

\* C21 as claimed: the request that returns the manifests of a success entry
\* has called no resolver
C21_CacheHitNoResolver ==
    \A r \in Reqs : (HitSuccessEntry(r) /\ st[r].pc = "done") => st[r].resolved = {}

\* a request has returned the manifests an earlier request rendered
C21_Witness ==
    \E r \in Reqs :
        /\ HitSuccessEntry(r) /\ st[r].pc = "done"
        /\ st[r].res.gen \notin {0, st[r].id}
        /\ st[r].resolved = {"revision", "refs"}

\* the step is an UpdateRevisionForPaths call that found no file of the paths
\* changed while the cache held a rendered entry under the key of the request
\* for the synced revision
RelabelStep ==
    /\ upd'.n = upd.n + 1 /\ upd'.unchanged
    /\ cache[ManifestKey(upd'.syncedRevision, repoRefs)].present
    /\ SuccessForm(cache[ManifestKey(upd'.syncedRevision, repoRefs)])

\* the entry is under the key of the request for the new revision
Relabelled ==
    cache'[ManifestKey(upd'.revision, repoRefs)]
        = cache[ManifestKey(upd'.syncedRevision, repoRefs)]

\* C22: when UpdateRevisionForPaths finds no file of the paths changed and a
\* rendered entry exists under the old revision's key, the entry is readable
\* under the new revision's key afterwards, whatever the shape of the request
C22_RelabelWithoutRender == [][RelabelStep => Relabelled]_vars

\* the same for a source without referenced repositories
RelabelWithoutReferences == [][(RelabelStep /\ refs = "none") => Relabelled]_vars

\* a request for the new revision has returned, without rendering, the manifests
\* rendered for the old revision
RelabelledHit ==
    \E r \in Reqs :
        /\ HitSuccessEntry(r) /\ st[r].pc = "done"
        /\ st[r].res.revision # st[r].q.revision

\* the calls of a returned checkoutRevision that are a Checkout
CheckoutsOf(calls) == {i \in DOMAIN calls : calls[i][1] = "Checkout"}

\* whether the i-th call of the returned checkoutRevision succeeded
Succeeded(i) ==
    LET c == co.calls[i] g == co.gitClient IN
    IF c[1] = "Init" THEN g.Init
    ELSE IF c = <<"Fetch", "">> THEN g.Fetch
    ELSE IF c[1] = "Fetch" THEN g.FetchRevision
    ELSE IF c[2] = "FETCH_HEAD" THEN g.CheckoutFetchHead
    ELSE g.Checkout = "ok"

\* the call sequences of checkoutRevision on a revision
CheckoutSequences(revision) ==
    LET full == <<<<"Init", "">>, <<"Fetch", "">>, <<"Checkout", revision>>,
                  <<"Fetch", revision>>, <<"Checkout", "FETCH_HEAD">>>>
    IN {SubSeq(full, 1, n) : n \in 1..5}
       \cup {<<full[1]>> \o SubSeq(full, 3, n) : n \in 3..5}

\* C23 (amended): checkoutRevision calls Init, then Fetch("") only when the
\* revision is not present, then Checkout(revision); Fetch(revision) followed by
\* Checkout(FETCH_HEAD) is attempted when the first checkout failed, whatever
\* its error, and at most once; every call but the first checkout is the last
\* one when it fails; nil is returned iff the last call is a checkout that
\* succeeded
C23_CheckoutSequence ==
    co.pc = "returned" =>
        LET calls == co.calls
            n == Len(calls)
        IN /\ calls \in CheckoutSequences(co.revision)
           /\ (<<"Fetch", "">> \in {calls[i] : i \in 1..n})
                 <=> (co.gitClient.Init /\ ~co.gitClient.IsRevisionPresent)
           /\ \A i \in 1..(n - 1) : Succeeded(i) \/ calls[i] = <<"Checkout", co.revision>>
           /\ (<<"Fetch", co.revision>> \in {calls[i] : i \in 1..n})
                 <=> (\E i \in 1..n : calls[i] = <<"Checkout", co.revision>> /\ ~Succeeded(i))
           /\ Cardinality({i \in 1..n : calls[i] = <<"Fetch", co.revision>>}) <= 1
           /\ Cardinality({i \in 1..n : calls[i] = <<"Checkout", "FETCH_HEAD">>}) <= 1
           /\ (co.err = "") <=> (calls[n][1] = "Checkout" /\ Succeeded(n))

\* C23 as claimed: the explicit fetch is attempted only when the first checkout
\* failed because the ref was not found
C23_FallbackOnRefNotFound ==
    (co.pc = "returned" /\ <<"Fetch", co.revision>> \in {co.calls[i] : i \in DOMAIN co.calls})
        => co.gitClient.Checkout = "ref not found"

\* the first checkout did not find the ref, the revision was fetched and
\* FETCH_HEAD checked out: nil is returned
C23_Witness ==
    /\ co.pc = "returned" /\ co.err = ""
    /\ co.gitClient.Checkout = "ref not found" /\ ~co.gitClient.IsRevisionPresent
    /\ Len(co.calls) = 5 /\ co.calls[5] = <<"Checkout", "FETCH_HEAD">>

\* C24: after mergeSourceParameters has returned nil the source's RepoURL, Path,
\* Chart and TargetRevision are what they were before the call, whatever the
\* override files hold; after it has returned an error the source is what it
\* was before the call
C24_SourceOverrides ==
    ms.pc = "returned" =>
        IF ms.err = "" THEN \A f \in IdentityFields : ms.source[f] = ms.before[f]
        ELSE ms.source = ms.before

\* both override files set every field: the call has returned nil with the
\* tool's parameters taken from the files and the location as before
C24_Witness ==
    /\ ms.pc = "returned" /\ ms.err = "" /\ ms.appName # ""
    /\ \A i \in 1..2 : \A f \in SourceFields : ms.files[i].patch[f] = "other"
    /\ ms.source.Helm = "other" /\ ms.before.Helm # "other"
    /\ ms.source.RepoURL = "repo" /\ ms.source.TargetRevision = "rev"

\* the second override file cannot be read after the first was merged: the
\* source is as before
C24_WitnessFailure ==
    /\ ms.pc = "returned" /\ ms.err = "unreadable"
    /\ ms.files[1].patch.Helm = "other"
    /\ ms.source = ms.before

\* the renderers inside runHelmBuild, and those building or writing the marker
InRunHelmBuild == {r \in Renderers : hb.call[r].pc \in {"stat", "build", "mark"}}
Building == {r \in Renderers : hb.call[r].pc \in {"build", "mark"}}

\* C25: no dependency build runs while the marker file exists, builds (with the
\* write of the marker) on the path never overlap, the marker is written only
\* after a successful build, so that the build succeeds at most once unless a
\* write of the marker fails; each render templates at most twice, the second
\* time only after a missing dependency and a runHelmBuild that returned nil
C25_OncePerTree ==
    /\ Cardinality(InRunHelmBuild) <= 1
    /\ InRunHelmBuild = IF hb.lock = 0 THEN {} ELSE {hb.lock}
    /\ \A r \in Renderers : hb.call[r].pc = "build" => ~hb.marker
    /\ (hb.marker /\ hb.okBuilds = 0) => Building = {} /\ ~hb.writeFailed
    /\ ~hb.writeFailed => hb.okBuilds <= 1
    /\ hb.okBuilds <= Cardinality({r \in Renderers : hb.call[r].built})
    /\ \A r \in Renderers :
          LET c == hb.call[r] IN
          /\ c.templates <= 2
          /\ c.pc = "retemplate" => c.templates = 1 /\ hb.marker
          /\ c.templates = 2 => c.pc = "done"
          /\ c.pc \in {"lock", "stat", "build", "mark"} => c.templates = 1
          /\ (c.pc = "done" /\ c.err \in {"stat", "write",
                                            "error building helm chart dependencies"})
                => c.templates = 1

\* every renderer hit the missing dependency, one of them built the
\* dependencies, and all have templated again without error
C25_Witness ==
    /\ hb.okBuilds = 1 /\ hb.marker /\ ~hb.writeFailed
    /\ \A r \in Renderers :
          hb.call[r].pc = "done" /\ hb.call[r].templates = 2 /\ hb.call[r].err = ""
    /\ Cardinality({r \in Renderers : hb.call[r].built}) = 1

\* C26: a request for a ref-only source of several probes and writes no cache
\* entry, takes no slot, lock or extraction and starts no render; it resolves
\* the revision and, when that succeeds, returns a response with the revision
\* and no manifests
C26_RefOnly ==
    \A r \in Reqs :
        (st[r].pc # "idle" /\ DeclaresOnlyRef(st[r].q)) =>
            /\ st[r].pc \in {"refonly", "done"}
            /\ ~TookAnything(r)
            /\ st[r].pend = NoWrite /\ st[r].storeErrs = {} /\ st[r].failedAt = 0
            /\ st[r].pc = "done" =>
                  /\ st[r].resolved = {"revision"}
                  /\ st[r].err.type \in {"", "resolve"}
                  /\ st[r].err = NoErr => st[r].res = Response(st[r].q.revision, 0)
                  /\ ~ReturnedManifests(r)

\* a request for a ref-only source has returned its revision without manifests
\* while the cache holds what an earlier request rendered for that revision
C26_Witness ==
    \E r \in Reqs :
        /\ DeclaresOnlyRef(st[r].q) /\ st[r].pc = "done"
        /\ st[r].err = NoErr /\ st[r].res = Response(st[r].q.revision, 0)
        /\ cache[Key(st[r].q)].present /\ SuccessForm(cache[Key(st[r].q)])

\* an entry of the project's list answers for the destination: both its globs
\* compile, its server glob matches the cluster's server and its namespace glob
\* the destination namespace
EntryValid(e) == GlobCompiles(e.Server) /\ GlobCompiles(e.Namespace)
EntryMatches(e) ==
    /\ EntryValid(e)
    /\ GlobMatch(e.Server, sa.server)
    /\ GlobMatch(e.Namespace, sa.destination)
\* the entries examined: all up to and including the first that matches or is invalid
Examined ==
    {i \in 1..Len(sa.accounts) :
        \A j \in 1..(i - 1) : EntryValid(sa.accounts[j]) /\ ~EntryMatches(sa.accounts[j])}
ExpectedNamespace(account) ==
    IF Len(account) = 2 THEN account[1]
    ELSE IF sa.destination # <<>> THEN sa.destination
    ELSE ApplicationNamespace

\* C27: deriveServiceAccountToImpersonate returns the account of the first entry,
\* in list order, whose server glob matches the cluster's server and whose
\* namespace glob matches the destination namespace, as
\* system:serviceaccount:<ns>:<name>, the namespace being the account's own, else
\* the destination namespace, else the application's; without a matching entry it
\* returns no account and "no matching service account found"; an invalid glob in
\* an examined entry gives an error and no account
C27_ImpersonationAccount ==
    sa.pc = "done" =>
        /\ \A i \in Examined :
              EntryMatches(sa.accounts[i]) =>
                  LET account == sa.accounts[i].DefaultServiceAccount IN
                  /\ sa.err = ""
                  /\ sa.account = <<"system", "serviceaccount", ExpectedNamespace(account),
                                    account[Len(account)]>>
        /\ (\A i \in 1..Len(sa.accounts) :
               EntryValid(sa.accounts[i]) /\ ~EntryMatches(sa.accounts[i]))
              => sa.account = NoAccount /\ sa.err = "no matching service account found"
        /\ (\E i \in Examined : ~EntryValid(sa.accounts[i]))
              => sa.account = NoAccount /\ sa.err # ""

\* a second entry wins over a later one that matches too; the destination
\* namespace is empty and the account names no namespace of its own
C27_Witness ==
    /\ sa.pc = "done"
    /\ Len(sa.accounts) = 2
    /\ sa.destination = <<>>
    /\ ~EntryMatches(sa.accounts[1]) /\ EntryValid(sa.accounts[1])
    /\ EntryMatches(sa.accounts[2])
    /\ sa.account = <<"system", "serviceaccount", ApplicationNamespace, "sa2">>

C27_WitnessFirst ==
    /\ sa.pc = "done"
    /\ Len(sa.accounts) = 2
    /\ EntryMatches(sa.accounts[1]) /\ EntryMatches(sa.accounts[2])
    /\ sa.accounts[1].Namespace = <<"t", "*">>
    /\ sa.destination = <<"t", "n">>
    /\ sa.accounts[1].DefaultServiceAccount # sa.accounts[2].DefaultServiceAccount
    /\ sa.account = ServiceAccountName(sa.destination, sa.accounts[1].DefaultServiceAccount)

\* C28: a goroutine started by runManifestGen sends exactly one value on
\* responseCh or errCh: once the caller has received a value from it, the
\* goroutine has nothing more to send; it closes its channels and ends (with a
\* referenced repository locked, its deferred release is all that is left)
C28_OneOutcome ==
    \A r \in Reqs : task[r].sent >= 1 => task[r].pc = "defer"

\* the goroutine of streamed files whose token is undeclared stands at its second send
SecondSend ==
    /\ repoType = "streamed"
    /\ refs = "undeclared"
    /\ task[1].pc = "senderr" /\ task[1].sent = 1
    /\ st[1].pc = "done" /\ st[1].err.type = "undeclaredref"

\* what getManifestCacheEntry returns for key k in the present state
ProbeOf(k, firstInvocation) == getManifestCacheEntry(GetManifests(k), firstInvocation)

\* C29: in every cache state the service reaches, and for every key, when
\* getManifestCacheEntry returns true it returns a response or an error, and
\* not both
C29_ResultShape ==
    \A k \in Keys, firstInvocation \in BOOLEAN :
        LET d == ProbeOf(k, firstInvocation) IN
        d.ok => ((d.res # NoResponse) # (d.err # NoErr))

\* a request was answered from an entry that holds both the manifests of an
\* earlier render and a failure record that pauses generation: its probe
\* returned true with the cached error and no response
C29_Witness ==
    /\ st[1].pc = "done"
    /\ st[1].verdict = "cached"
    /\ st[1].probed.ManifestResponse # NoResponse
    /\ st[1].res = NoResponse
    /\ st[1].err = CachedErr(st[1].probed.MostRecentError)
    /\ ProbeOf(Key(st[1].q), FALSE).ok

\* a request was answered with the manifests of a success entry
C29_WitnessHit ==
    /\ st[1].pc = "done"
    /\ st[1].verdict = "hit"
    /\ st[1].res # NoResponse /\ st[1].err = NoErr
    /\ ProbeOf(Key(st[1].q), TRUE).res = st[1].res

\* C30: a request whose probes missed, so that runManifestGen started its
\* goroutine, and that returns without an error returns the response of its own
\* render: after tarDone it has waited for the goroutine, and what a probe left
\* in res is never what it returns
C30_NoStaleResponse ==
    \A r \in Reqs :
        (st[r].pc = "done" /\ st[r].rendered /\ st[r].err = NoErr) =>
            st[r].res = Response(st[r].q.revision, st[r].id)

\* the request returned the manifests of an earlier request's render while its
\* own goroutine is still with the plugin or waits to send
StaleResponseReturned ==
    /\ st[1].pc = "done"
    /\ st[1].tarConcluded
    /\ st[1].res = st[1].probed.ManifestResponse
    /\ st[1].res # NoResponse
    /\ st[1].res # Response(st[1].q.revision, st[1].id)
    /\ task[1].pc \in {"plugin", "sendresp", "senderr", "okset", "failget", "failset"}

\* C31: the entry the goroutine of a request writes at the end of generation,
\* success entry or failure record, is stored under the key the request's
\* probes read: no other key's entry changes with that write
C31_ProbeKeyIsWriteKey ==
    [][\A r \in Reqs :
          (task[r].pc \in {"failset", "okset"} /\ cache' # cache) =>
              \A k \in Keys \ {Key(st[r].q)} : cache'[k] = cache[k]]_vars

\* a request with a "$ref" value file failed in signature verification: its
\* failure is recorded under the key without referenced commits, and the key
\* its probes read holds no record of it
RecordedUnderOtherKey ==
    /\ refs = "one"
    /\ st[1].pc = "done"
    /\ st[1].verdict = "miss" /\ st[1].doubleChecked
    /\ st[1].err.type = "opcontext"
    /\ st[1].failedAt > 0
    /\ cache[ManifestKey(st[1].q.revision, "")].NumberOfConsecutiveFailures >= 1
    /\ ~cache[Key(st[1].q)].present

\* C32: concurrent requests never block each other for ever: as long as a
\* request has not returned (or its goroutine has not ended), some request or
\* goroutine can take a step, so that with every checkout and render ending
\* every request returns
C32_DeadlockFree ==
    (\A r \in Reqs : xr.req[r].pc \in {"idle", "done"} /\ xr.req[r].tpc = "none")
        \/ ENABLED NextCross

\* each request holds the tree of its repository while its goroutine waits for
\* the tree of the other, held at another revision
CrossDeadlock ==
    /\ xr.req[1].tree # xr.req[2].tree
    /\ \A r \in Reqs :
          /\ xr.req[r].pc = "select"
          /\ xr.req[r].tpc = "reflock"
          /\ ~TreeFree(xr.lock[Other(xr.req[r].tree)], xr.req[r].refRevision)

\* the requests that have returned the cached generation error and are not
\* yet forgotten
ServedCached ==
    {r \in Reqs : st[r].pc = "done" /\ st[r].err.type = cachedManifestGenerationPrefix}

\* a write that cannot lower a counter: the entry is deleted, or written as a
\* success entry
ResetsEntry(e) == ~e.present \/ SuccessForm(e)

\* C33: under concurrent requests for one key, no more than pauseRequests
\* requests are served the cached error without a render in between (no request
\* renders while another is held as served); the stored counters are never
\* negative, and a write lowers consecutiveFailures or cachedResponseCount only
\* when it deletes the entry or writes a success entry
C33_BackoffConcurrent ==
    /\ [](Cardinality(ServedCached) <= PauseRequests)
    /\ [](\A k \in Keys : /\ cache[k].NumberOfConsecutiveFailures >= 0
                          /\ cache[k].NumberOfCachedResponsesReturned >= 0)
    /\ [][\A k \in Keys :
            ResetsEntry(cache'[k])
            \/ /\ cache'[k].NumberOfConsecutiveFailures
                     >= cache[k].NumberOfConsecutiveFailures
               /\ cache'[k].NumberOfCachedResponsesReturned
                     >= cache[k].NumberOfCachedResponsesReturned]_vars

\* with pauseRequests = 1, two requests have been served the cached error of
\* one failed render, and the stored count is 1
ServedBeyondLimit ==
    /\ PauseRequests = 1
    /\ started = 3
    /\ ServedCached = Reqs
    /\ \A r \in Reqs : ~st[r].generated
    /\ cache[Key(st[1].q)].NumberOfCachedResponsesReturned = 1

\* the failure record of a request that read the entry earlier overwrites a
\* record with a higher count
FailureCountLowered ==
    \E r \in Reqs :
        /\ task[r].pc = "failset"
        /\ cache[WriteKey(r)].present
        /\ cache[WriteKey(r)].NumberOfConsecutiveFailures
              > task[r].innerRes.NumberOfConsecutiveFailures + 1

\* the pattern of a SourceRepos entry, without its "!", matches the source
\* URL; only an allow pattern "*" matches across separators
PatternMatches(entry) ==
    LET pattern == NormalizeGitURL(IF isDenyPattern(entry) THEN Tail(entry) ELSE entry)
    IN \/ ~isDenyPattern(entry) /\ pattern = <<"*">>
       \/ GlobMatchSeparated(pattern, NormalizeGitURL(proj.RepoURL))
AllowEntries == {i \in 1..Len(proj.SourceRepos) : ~isDenyPattern(proj.SourceRepos[i])}
DenyEntries == {i \in 1..Len(proj.SourceRepos) : isDenyPattern(proj.SourceRepos[i])}

\* C34: IsSourcePermitted returns true exactly when the normalized source URL
\* matches an allow pattern and matches no deny pattern, whatever the order of
\* the entries; an empty list permits nothing
C34_SourcePermitted ==
    proj.pc = "done" =>
        (proj.permitted <=>
            /\ \E i \in AllowEntries : PatternMatches(proj.SourceRepos[i])
            /\ \A i \in DenyEntries : ~PatternMatches(proj.SourceRepos[i]))

\* what the loop computes: no deny pattern matches, and the list has an allow
\* pattern that matches or any deny pattern at all
SourcePermittedAsComputed ==
    proj.pc = "done" =>
        (proj.permitted <=>
            /\ \A i \in DenyEntries : ~PatternMatches(proj.SourceRepos[i])
            /\ \/ \E i \in AllowEntries : PatternMatches(proj.SourceRepos[i])
               \/ DenyEntries # {})

\* a project with one deny pattern and no allow pattern permits a source the
\* deny pattern does not match
DenyOnlyPermits ==
    /\ proj.pc = "done"
    /\ proj.SourceRepos = << <<"!", "a">> >>
    /\ proj.RepoURL = <<"c">>
    /\ proj.permitted

TokensOf(list) == {list[i] : i \in 1..Len(list)}
\* the tokens of a list that the arguments of the last RemoveJWTToken identify:
\* by id when the list has a token of that id, if not by issuedAt
Identified(list) ==
    IF proj.args.id # "" /\ \E t \in TokensOf(list) : t.ID = proj.args.id
    THEN {t \in TokensOf(list) : t.ID = proj.args.id}
    ELSE {t \in TokensOf(list) : proj.args.issuedAt # -1 /\ t.IssuedAt = proj.args.issuedAt}
Removed(old, new) ==
    /\ TokensOf(new) \subseteq TokensOf(old)
    /\ \A t \in TokensOf(old) \ Identified(old) : t \in TokensOf(new)
    /\ Identified(old) # {} => \E t \in Identified(old) : t \notin TokensOf(new)

\* C35: RemoveJWTToken removes the token identified by id, or failing that by
\* issuedAt, from the spec list and from the status list of the role, leaves
\* every other token in both lists, and returns an error exactly when neither
\* list has the token, and then nothing is changed
C35_RemoveJWTToken ==
    proj.call = "RemoveJWTToken" =>
        LET old == proj.old[proj.args.roleIndex]
            new == TokenLists(proj.Roles)[proj.args.roleIndex]
        IN /\ proj.err <=> (Identified(old.spec) = {} /\ Identified(old.status) = {})
           /\ proj.err => TokenLists(proj.Roles) = proj.old
           /\ Removed(old.spec, new.spec)
           /\ Removed(old.status, new.status)
           /\ \A i \in 1..Len(proj.Roles) :
                  i # proj.args.roleIndex => TokenLists(proj.Roles)[i] = proj.old[i]

\* the same on a project whose lists share no backing array: the first call
C35_RemoveDecoded == proj.calls = 1 => C35_RemoveJWTToken

\* after NormalizeJWTTokens the two lists of a role are one backing array: a
\* call that names a token of the role by its id and its issuedAt also removes
\* another token, issued at the same time, from the spec list and the status list
OtherTokenRemoved ==
    /\ proj.call = "RemoveJWTToken"
    /\ proj.before = "NormalizeJWTTokens"
    /\ ~proj.err
    /\ LET old == proj.old[proj.args.roleIndex]
           new == TokenLists(proj.Roles)[proj.args.roleIndex]
       IN /\ [ID |-> proj.args.id, IssuedAt |-> proj.args.issuedAt] \in TokensOf(old.spec)
          /\ \E t \in TokensOf(old.spec) :
                 /\ t.ID # proj.args.id
                 /\ t \notin TokensOf(new.spec)
                 /\ t \notin TokensOf(new.status)

\* the lists of every role after NormalizeJWTTokens: spec and status equal, each
\* ID once, the IDs of the tokens of both lists before (empty IDs replaced by
\* the decimal issuedAt), sorted by issuedAt descending, no status entry of a
\* role absent from the spec
Identify(t) == IF t.ID = "" THEN [t EXCEPT !.ID = FormatInt(t.IssuedAt)] ELSE t
Normalized ==
    /\ proj.Orphans = {}
    /\ \A r \in 1..Len(proj.Roles) :
          LET new == TokenLists(proj.Roles)[r]
              union == {Identify(t) : t \in TokensOf(proj.old[r].spec) \cup TokensOf(proj.old[r].status)}
          IN /\ new.spec = new.status
             /\ \A i, j \in 1..Len(new.spec) : i < j =>
                    /\ new.spec[i].ID # new.spec[j].ID
                    /\ new.spec[i].IssuedAt >= new.spec[j].IssuedAt
             /\ TokensOf(new.spec) \subseteq union
             /\ {t.ID : t \in TokensOf(new.spec)} = {t.ID : t \in union}
SecondCall == proj.call = "NormalizeJWTTokens" /\ proj.before = "NormalizeJWTTokens"

\* C36: after NormalizeJWTTokens the lists are normalized, and a second call
\* immediately afterwards changes nothing and returns false
C36_NormalizeJWTTokens ==
    proj.call = "NormalizeJWTTokens" =>
        /\ Normalized
        /\ SecondCall => (~proj.ret /\ TokenLists(proj.Roles) = proj.old)

\* the postcondition alone
C36_Postcondition == proj.call = "NormalizeJWTTokens" => Normalized

\* a second call on lists whose tokens all differ in issuedAt
C36_IdempotentWithoutTies ==
    (SecondCall /\ \A r \in 1..Len(proj.old) : \A i, j \in 1..Len(proj.old[r].spec) :
                        i # j => proj.old[r].spec[i].IssuedAt # proj.old[r].spec[j].IssuedAt)
        => (~proj.ret /\ TokenLists(proj.Roles) = proj.old)

\* a second call that returns true and lists the tokens in another order
SecondCallReorders ==
    /\ SecondCall
    /\ proj.ret
    /\ TokenLists(proj.Roles) # proj.old

Called(op, kind) == creds.pc = "served" /\ creds.last.op = op /\ creds.last.kind = kind
Allowed(action) ==
    Enforce(creds.last.claims, Resource(creds.last.kind), action, creds.last.Creds.URL)
\* the credential set of the request's URL in the store of the call's kind,
\* before the call and after it
StoredBefore == creds.last.db[creds.last.kind][creds.last.Creds.URL]
StoredAfter == creds.db[creds.last.kind][creds.last.Creds.URL]
Submitted ==
    [present |-> TRUE, Username |-> creds.last.Creds.Username, Password |-> creds.last.Creds.Password]
\* a Create[Write]RepositoryCredentials call for a URL that has a credential
\* set in the store of the call, by a caller who is allowed what the call asks
\* the enforcer: create, and update where the call upserts
CreateOnExisting ==
    /\ creds.pc = "served"
    /\ creds.last.op = "Create"
    /\ ~creds.last.Creds.nil
    /\ creds.last.Creds.URL \in CredentialURLs
    /\ StoredBefore.present
    /\ Allowed("create")
    /\ (creds.last.Upsert /\ StoredBefore # Submitted) => Allowed("update")

\* C37: a create on an existing URL, by a caller the enforcer lets through,
\* succeeds and changes nothing when the stored set equals the submitted one;
\* fails with InvalidArgument and changes nothing when they differ and upsert
\* is false; stores the submitted set when they differ and upsert is true; in
\* the read store and in the write store alike
C37_CreateOnExisting ==
    CreateOnExisting =>
        /\ StoredBefore = Submitted => (creds.last.code = "OK" /\ creds.db = creds.last.db)
        /\ (StoredBefore # Submitted /\ ~creds.last.Upsert) =>
               (creds.last.code = "InvalidArgument" /\ creds.db = creds.last.db)
        /\ (StoredBefore # Submitted /\ creds.last.Upsert) =>
               /\ creds.last.code = "OK"
               /\ creds.db = [creds.last.db EXCEPT ![creds.last.kind][creds.last.Creds.URL] = Submitted]

C37_Witness ==
    /\ CreateOnExisting
    /\ creds.last.kind = "read"
    /\ StoredBefore # Submitted
    /\ creds.last.Upsert
    /\ StoredAfter = Submitted
C37_WitnessWrite ==
    /\ CreateOnExisting
    /\ creds.last.kind = "write"
    /\ StoredBefore # Submitted
    /\ ~creds.last.Upsert
    /\ creds.last.code = "InvalidArgument"
C37_WitnessEqual ==
    /\ CreateOnExisting
    /\ StoredBefore = Submitted
    /\ creds.last.code = "OK"

\* C38: ListWriteRepositoryCredentials returns one item for every write
\* credential set with a non-empty password whose URL the caller may get under
\* write-repositories, whatever read credential sets are configured
C38_ListWrite ==
    Called("List", "write") =>
        {i.URL : i \in creds.last.items} =
            {u \in CredentialURLs :
                /\ creds.db["write"][u].present
                /\ creds.db["write"][u].Password # ""
                /\ Enforce(creds.last.claims, "write-repositories", "get", u)}

\* the items are the write credential sets among the URLs of the read sets
ListWriteAsComputed ==
    Called("List", "write") =>
        {i.URL : i \in creds.last.items} =
            {u \in CredentialURLs :
                /\ creds.db["read"][u].present
                /\ creds.db["write"][u].present
                /\ creds.db["write"][u].Password # ""
                /\ Enforce(creds.last.claims, "write-repositories", "get", u)}

\* a write credential set the caller may get is not listed: its URL has no
\* read credential set
WriteSetNotListed ==
    /\ Called("List", "write")
    /\ creds.last.items = {}
    /\ ~creds.db["read"]["u2"].present
    /\ creds.db["write"]["u2"].present
    /\ creds.db["write"]["u2"].Password # ""
    /\ Enforce(creds.last.claims, "write-repositories", "get", "u2")

\* C39: a Create, Update or Delete call, read or write, changes the store only
\* if the enforcer allows the action of the call on the request's URL for the
\* resource of the call; a Create on an existing URL changes it only if create
\* and update are both allowed; a denied call changes nothing
C39_RBACGating ==
    creds.pc = "served" =>
        /\ creds.db # creds.last.db =>
               /\ creds.last.op \in {"Create", "Update", "Delete"}
               /\ creds.last.op = "Create" => Allowed("create")
               /\ creds.last.op = "Update" => Allowed("update")
               /\ creds.last.op = "Delete" => Allowed("delete")
               /\ (creds.last.op = "Create" /\ StoredBefore.present) => Allowed("update")
               /\ \A k \in Kinds, u \in CredentialURLs :
                      creds.db[k][u] # creds.last.db[k][u] =>
                          k = creds.last.kind /\ u = creds.last.Creds.URL
        /\ creds.last.code = "PermissionDenied" => creds.db = creds.last.db

C39_Witness ==
    /\ Called("Create", "write")
    /\ creds.last.Creds.URL \in CredentialURLs
    /\ StoredBefore.present
    /\ creds.db # creds.last.db
C39_WitnessDenied ==
    /\ Called("Create", "read")
    /\ creds.last.Upsert
    /\ creds.last.Creds.URL \in CredentialURLs
    /\ StoredBefore.present
    /\ StoredBefore # Submitted
    /\ Allowed("create")
    /\ ~Allowed("update")
    /\ creds.last.code = "PermissionDenied"

====
